---- MODULE Spec2Model ----
(***************************************************************************)
(* A state-machine model of the salon point-of-sale backend                *)
(* (src/app/routes.py, src/app/auth.py, src/app/models.py).                *)
(*                                                                         *)
(* The state is the relational store (one variable per table) plus the     *)
(* last HTTP response.  Every route handler is one action that runs the    *)
(* login_required decorator and then the handler body, commit or rollback  *)
(* included.                                                               *)
(*                                                                         *)
(* Money is kept in cents (Numeric(10, 2) columns).  Instants are counted  *)
(* in half-second ticks since 2023-01-01T00:00:00 UTC: an even tick 2k is  *)
(* the whole second k, the odd tick 2k+1 stands for every instant strictly *)
(* between the seconds k and k+1 (so 23:59:59.999999 is the last, odd,     *)
(* tick of a day and 23:59:59.000000 the even tick before it).             *)
(***************************************************************************)
EXTENDS Integers, FiniteSets, Sequences, TLC

VARIABLES users, salons, staff, services, logs, closings, resp,
          inflight, COGNITO_KEYS, jwks, config

vars == <<users, salons, staff, services, logs, closings, resp,
          inflight, COGNITO_KEYS, jwks, config>>

\* The state of the server around the tables: the requests that have read and
\* not yet written, the process-wide key cache of auth.py, the key set the
\* identity provider publishes, and the Cognito settings of the process.
server == <<inflight, COGNITO_KEYS, jwks, config>>

\* ------------------------------------------------------------ bounds

\* Staff rows a run invites, and Service, ServiceLog and DailyClosing rows a
\* run inserts in all.
MaxStaff == 2
MaxRows == 3

\* None in a nullable column or an absent request field; row ids start at 1.
NULL == 0

\* ------------------------------------------------------------ calendar

TicksPerSecond == 1 + 1
TicksPerDay == 24 * 60 * 60 * TicksPerSecond

Years == 2023..2025
BaseYear == CHOOSE y \in Years : \A z \in Years : y <= z

IsLeap(y) == (y % 4 = 0 /\ y % 100 # 0) \/ (y % 400 = 0)

\* calendar.monthrange(year, month)[1]
DaysInMonth(y, m) ==
    IF m = 2 THEN (IF IsLeap(y) THEN 29 ELSE 28)
    ELSE IF m \in {4, 6, 9, 11} THEN 30 ELSE 31

DaysInYear(y) == IF IsLeap(y) THEN 366 ELSE 365

RECURSIVE DaysBeforeYear(_)
DaysBeforeYear(y) ==
    IF y = BaseYear THEN 0
    ELSE IF y > BaseYear THEN DaysBeforeYear(y - 1) + DaysInYear(y - 1)
    ELSE DaysBeforeYear(y + 1) - DaysInYear(y)

RECURSIVE DaysBeforeMonth(_, _)
DaysBeforeMonth(y, m) ==
    IF m = 1 THEN 0 ELSE DaysBeforeMonth(y, m - 1) + DaysInMonth(y, m - 1)

\* A date(y, m, d) as a day number: days since 2023-01-01.
DayNumber(y, m, d) == DaysBeforeYear(y) + DaysBeforeMonth(y, m) + (d - 1)

\* The civil date <<year, month, day>> of a day number.
CivilOf(n) ==
    LET y == CHOOSE yy \in (BaseYear - 1)..(BaseYear + 3) :
                 DaysBeforeYear(yy) <= n /\ n < DaysBeforeYear(yy) + DaysInYear(yy)
        k == n - DaysBeforeYear(y)
        m == CHOOSE mm \in 1..12 :
                 DaysBeforeMonth(y, mm) <= k /\ k < DaysBeforeMonth(y, mm) + DaysInMonth(y, mm)
    IN  <<y, m, k - DaysBeforeMonth(y, m) + 1>>

\* The dates from 2022-12-30 to 2026-01-02, tabulated once.
CivilTable == [n \in (0 - 2)..(DaysBeforeYear(BaseYear + 3) + 1) |-> CivilOf(n)]

\* date.year, date.month, date.day of a day number.
YearOf(n) == CivilTable[n][1]
MonthOf(n) == CivilTable[n][2]
DayOf(n) == CivilTable[n][3]

\* datetime(y, m, d, hh, mm, ss) read as UTC, in ticks.
Instant(y, m, d, hh, mm, ss) ==
    DayNumber(y, m, d) * TicksPerDay + ((hh * 60 + mm) * 60 + ss) * TicksPerSecond

\* datetime.strptime(s, '%Y-%m-%d').date() / date.fromisoformat(s): a request
\* date is the triple the string spells; the triple is a date only when the
\* month and the day exist.
ValidDate(s) ==
    /\ s[2] \in 1..12
    /\ s[3] \in 1..DaysInMonth(s[1], s[2])

ParseDate(s) == DayNumber(s[1], s[2], s[3])

\* tz.localize(naive).astimezone(pytz.utc) for a zone of fixed UTC offset
\* `off` (in ticks, east positive): the local wall clock minus the offset.
LocalToUtc(local, off) == local - off

\* stored.replace(tzinfo=pytz.utc).astimezone(tz): the local wall clock.
UtcToLocal(utc, off) == utc + off

\* datetime.date() of a wall-clock value: the day number it falls in.
DateOfInstant(t) == t \div TicksPerDay

\* ------------------------------------------------------------ inputs

\* The verified identities a bearer token can carry: claims 'sub' and 'email'.
\* s4 signs up with the e-mail address s3 uses.
Tokens ==
    { [sub |-> "s1", email |-> "e1"], [sub |-> "s2", email |-> "e2"],
      [sub |-> "s3", email |-> "e3"], [sub |-> "s4", email |-> "e3"] }

Emails == {t.email : t \in Tokens}

\* Salon.timezone as the zone's UTC offset in ticks: Asia/Kolkata (+05:30, the
\* default) and a zone eight hours behind UTC.
Kolkata == (5 * 60 + 30) * 60 * TicksPerSecond
West8 == 0 - 8 * 60 * 60 * TicksPerSecond
TzOffsets == {Kolkata, West8}

\* The JSON body of POST /api/auth/sync-profile: unreadable (get_json raises),
\* or an object with an optional 'timezone'.  s2 registers its salon eight
\* hours behind UTC, everybody else leaves the default.
SyncBodies(tok) ==
    {[json_ok |-> FALSE, timezone |-> Kolkata],
     [json_ok |-> TRUE, timezone |-> IF tok.sub = "s2" THEN West8 ELSE Kolkata]}

\* ------------------------------------------------------------ server state

\* The JSON Web Keys of the identity provider: a key id and the key it names.
K1 == [kid |-> "k1", n |-> "n1"]
K2 == [kid |-> "k2", n |-> "n2"]

\* COGNITO_REGION, COGNITO_USER_POOL_ID, COGNITO_APP_CLIENT_ID and ENV of the
\* process; "" is an unset or empty setting.
Settings(region, user_pool_id, app_client_id, env) ==
    [COGNITO_REGION |-> region, COGNITO_USER_POOL_ID |-> user_pool_id,
     COGNITO_APP_CLIENT_ID |-> app_client_id, ENV |-> env]

Configured == Settings("us-east-1", "pool", "client", "production")

\* A freshly started, fully configured process with no request in flight:
\* _COGNITO_KEYS = None (the empty key set) and the provider publishes K1.
Idle ==
    /\ inflight = {}
    /\ COGNITO_KEYS = {}
    /\ jwks = {K1}
    /\ config = Configured

\* ------------------------------------------------------------ responses

NoRows == [logs |-> {}, services |-> {}, staff |-> {}, closings |-> {}]

\* The HTTP response of the last request: the handler, the caller's subject
\* id, the status code, the ids of the rows the body was built from, and the
\* figures of the body.
Reply(op, tok, status, rows, data) ==
    [op |-> op, sub |-> tok.sub, status |-> status, rows |-> rows, data |-> data]

NoData == <<>>

\* ------------------------------------------------------------ the store

Init ==
    /\ users = {}
    /\ salons = {}
    /\ staff = {}
    /\ services = {}
    /\ logs = {}
    /\ closings = {}
    /\ resp = [op |-> "none", sub |-> "", status |-> 0, rows |-> NoRows, data |-> NoData]
    /\ Idle

\* default=generate_uuid: a fresh id; rows are never deleted.
NewId(table) == Cardinality(table) + 1

\* The run may insert one more Service, ServiceLog or DailyClosing row.
HasRoom == Cardinality(services) + Cardinality(logs) + Cardinality(closings) < MaxRows

\* The fresh id of the User created for a subject: s1 gets 1, s2 gets 2, ...
NewUserId(sub) == CHOOSE i \in 1..4 : sub = <<"s1", "s2", "s3", "s4">>[i]

\* ------------------------------------------------------------ login_required

\* User.query.filter_by(cognito_sub=g.cognito_sub)
g_current_user(tok) == {u \in users : u.sub = tok.sub}

\* The salon login_required binds: a STAFF user's Staff row's salon, an
\* owner's own salon; none without a user, a Staff row or a salon.
SalonsOfUser(u) ==
    IF u.role = "STAFF"
    THEN {sa \in salons : \E st \in staff : st.user_id = u.id /\ st.salon_id = sa.id}
    ELSE {sa \in salons : sa.owner_id = u.id}

g_current_salon(tok) == UNION {SalonsOfUser(u) : u \in g_current_user(tok)}

\* Staff.query.filter_by(user_id=user.id)
StaffRecords(u) == {st \in staff : st.user_id = u.id}

\* ------------------------------------------------------------ sync_profile

\* A rollback that leaves the flushed writes in the tables.
session_rollback_keeps(pending) == pending

\* db.session.rollback(): the session's pending writes are dropped and the
\* tables are as committed.
session_rollback(pending) ==
    [users |-> users, salons |-> salons, staff |-> staff]

\* The first-contact transaction of sync_profile for a subject without a
\* User: the tables it leaves and the status it answers.  `invited` is the
\* set holding the Staff row first() returned (empty: none), `store_ok` is
\* whether the store accepts the commit.
first_contact(tok, invited, body, store_ok) ==
    LET role == IF invited # {} THEN "STAFF" ELSE "OWNER"
        user == [id |-> NewUserId(tok.sub), sub |-> tok.sub, email |-> tok.email, role |-> role]
        \* flush: users.email is unique
        flush_ok == \A u \in users : u.email # user.email
        flushed == [users |-> users \cup {user}, salons |-> salons, staff |-> staff]
        linked == [flushed EXCEPT !.staff =
                     {IF st \in invited THEN [st EXCEPT !.user_id = user.id] ELSE st
                        : st \in staff}]
        salon == [id |-> NewId(salons), owner_id |-> user.id, timezone |-> body.timezone]
        owned == [flushed EXCEPT !.salons = salons \cup {salon}]
        salon_id == IF role = "STAFF"
                    THEN (CHOOSE st \in invited : TRUE).salon_id ELSE salon.id
        created == [user_id |-> user.id, role |-> role, salon_id |-> salon_id]
    IN  IF ~flush_ok
        THEN [status |-> 500, db |-> session_rollback([users |-> users, salons |-> salons, staff |-> staff]), data |-> NoData]
        ELSE IF role = "STAFF"
        THEN IF store_ok
             THEN [status |-> 201, db |-> linked, data |-> created]
             ELSE [status |-> 500, db |-> session_rollback(linked), data |-> NoData]
        ELSE IF ~body.json_ok
        THEN [status |-> 500, db |-> session_rollback(flushed), data |-> NoData]
        ELSE IF store_ok
        THEN [status |-> 201, db |-> owned, data |-> created]
        ELSE [status |-> 500, db |-> session_rollback(owned), data |-> NoData]

\* POST /api/auth/sync-profile
sync_profile(tok, body, store_ok) ==
    /\ UNCHANGED server
    /\ UNCHANGED <<services, logs, closings>>
    /\ IF g_current_user(tok) = {}
       THEN \E invited \in
                  IF \E st \in staff : st.email = tok.email
                  THEN {{st} : st \in {x \in staff : x.email = tok.email}}
                  ELSE {{}} :
              LET r == first_contact(tok, invited, body, store_ok)
              IN  /\ users' = r.db.users
                  /\ salons' = r.db.salons
                  /\ staff' = r.db.staff
                  /\ resp' = Reply("sync_profile", tok, r.status, NoRows, r.data)
       ELSE \E user \in g_current_user(tok) :
              LET found == SalonsOfUser(user)
              IN  \E salon_id \in IF found = {} THEN {NULL} ELSE {sa.id : sa \in found} :
                    /\ UNCHANGED <<users, salons, staff>>
                    /\ resp' = Reply("sync_profile", tok, 200, NoRows,
                                     [user_id |-> user.id, role |-> user.role,
                                      salon_id |-> salon_id])

\* GET /api/auth/me
get_current_user(tok) ==
    /\ UNCHANGED server
    /\ UNCHANGED <<users, salons, staff, services, logs, closings>>
    /\ IF g_current_user(tok) = {}
       THEN resp' = Reply("get_current_user", tok, 404, NoRows, NoData)
       ELSE \E user \in g_current_user(tok) :
              IF user.role = "STAFF" /\ \A st \in StaffRecords(user) : ~st.is_active
              THEN resp' = Reply("get_current_user", tok, 403, NoRows, NoData)
              ELSE IF SalonsOfUser(user) = {}
              THEN resp' = Reply("get_current_user", tok, 404, NoRows, NoData)
              ELSE \E salon \in SalonsOfUser(user) :
                     resp' = Reply("get_current_user", tok, 200, NoRows,
                                   [user_id |-> user.id, role |-> user.role,
                                    salon_id |-> salon.id])

\* ------------------------------------------------------------ staff routes

\* The JSON body of POST /api/staff.  An absent 'name' or 'email' is "".
StaffBodies ==
    {[name |-> "", email |-> "e3"], [name |-> "Asha", email |-> ""],
     [name |-> "Asha", email |-> "e3"]}

\* Staff.query.filter_by(salon_id=salon_id, email=email, is_active=True)
existing_staff(salon_id, email) ==
    {st \in staff : st.salon_id = salon_id /\ st.email = email /\ st.is_active}

\* A role check that lets every caller through.
not_owner_skipped(tok) == FALSE

\* g.current_user.role != 'OWNER'
not_owner(tok) == \E u \in g_current_user(tok) : u.role # "OWNER"

\* POST /api/staff
create_staff(tok, body, store_ok) ==
    /\ UNCHANGED server
    /\ UNCHANGED <<users, salons, services, logs, closings>>
    /\ IF g_current_salon(tok) = {}
       THEN /\ resp' = Reply("create_staff", tok, 404, NoRows, NoData)
            /\ UNCHANGED staff
       ELSE \E salon \in g_current_salon(tok) :
              IF not_owner(tok)
              THEN /\ resp' = Reply("create_staff", tok, 403, NoRows, NoData)
                   /\ UNCHANGED staff
              ELSE IF body.name = "" \/ body.email = ""
                      \/ existing_staff(salon.id, body.email) # {}
              THEN /\ resp' = Reply("create_staff", tok, 400, NoRows, NoData)
                   /\ UNCHANGED staff
              ELSE IF ~store_ok
              THEN /\ resp' = Reply("create_staff", tok, 500, NoRows, NoData)
                   /\ UNCHANGED staff
              ELSE LET row == [id |-> NewId(staff), salon_id |-> salon.id,
                               name |-> body.name, email |-> body.email,
                               user_id |-> NULL, is_active |-> TRUE]
                   IN  /\ Cardinality(staff) < MaxStaff
                       /\ staff' = staff \cup {row}
                       /\ resp' = Reply("create_staff", tok, 201,
                                        [NoRows EXCEPT !.staff = {row.id}], NoData)

\* A deactivation that takes the staff member's ServiceLogs away with the flag.
delete_staff_cascades(tok, staff_id, store_ok) ==
    /\ UNCHANGED server
    /\ UNCHANGED <<users, salons, services, closings>>
    /\ \E salon \in g_current_salon(tok) :
          LET found == {st \in staff : st.id = staff_id /\ st.salon_id = salon.id}
          IN  /\ ~not_owner(tok)
              /\ found # {}
              /\ store_ok
              /\ staff' = {IF st \in found THEN [st EXCEPT !.is_active = FALSE]
                            ELSE st : st \in staff}
              /\ logs' = {l \in logs : l.staff_id # staff_id}
              /\ resp' = Reply("delete_staff", tok, 200,
                               [NoRows EXCEPT !.staff = {staff_id}], NoData)

\* DELETE /api/staff/<staff_id>
delete_staff(tok, staff_id, store_ok) ==
    /\ UNCHANGED server
    /\ UNCHANGED <<users, salons, services, logs, closings>>
    /\ IF g_current_salon(tok) = {}
       THEN /\ resp' = Reply("delete_staff", tok, 404, NoRows, NoData)
            /\ UNCHANGED staff
       ELSE \E salon \in g_current_salon(tok) :
              LET found == {st \in staff : st.id = staff_id /\ st.salon_id = salon.id}
              IN  IF not_owner(tok)
                  THEN /\ resp' = Reply("delete_staff", tok, 403, NoRows, NoData)
                       /\ UNCHANGED staff
                  ELSE IF found = {}
                  THEN /\ resp' = Reply("delete_staff", tok, 404, NoRows, NoData)
                       /\ UNCHANGED staff
                  ELSE IF ~store_ok
                  THEN /\ resp' = Reply("delete_staff", tok, 500, NoRows, NoData)
                       /\ UNCHANGED staff
                  ELSE /\ staff' = {IF st \in found THEN [st EXCEPT !.is_active = FALSE]
                                    ELSE st : st \in staff}
                       /\ resp' = Reply("delete_staff", tok, 200,
                                        [NoRows EXCEPT !.staff = {staff_id}], NoData)

\* GET /api/staff
get_staff(tok) ==
    /\ UNCHANGED server
    /\ UNCHANGED <<users, salons, staff, services, logs, closings>>
    /\ IF g_current_salon(tok) = {}
       THEN resp' = Reply("get_staff", tok, 404, NoRows, NoData)
       ELSE \E salon \in g_current_salon(tok) :
              resp' = Reply("get_staff", tok, 200,
                            [NoRows EXCEPT !.staff =
                               {st.id : st \in {x \in staff :
                                  x.salon_id = salon.id /\ x.is_active}}],
                            NoData)

\* ------------------------------------------------------------ helpers

\* sum(float(log.price) for log in rows), in cents.
RECURSIVE SumPrice(_)
SumPrice(rows) ==
    IF rows = {} THEN 0
    ELSE LET r == CHOOSE x \in rows : TRUE
         IN  r.price + SumPrice(rows \ {r})

\* str.lower() on the payment-method strings of the model.
Lower(m) ==
    CASE m \in {"cash", "Cash", "CASH"} -> "cash"
      [] m \in {"upi", "Upi", "UPI"} -> "upi"
      [] OTHER -> m

\* A day range that applies the zone's offset the wrong way round.
get_day_range_utc_shifted(salon, target_date, now) ==
    LET tz == salon.timezone
        day == IF target_date = <<>>
               THEN DateOfInstant(UtcToLocal(now, tz))
               ELSE target_date[1]
    IN  <<UtcToLocal(day * TicksPerDay, tz),
          UtcToLocal(day * TicksPerDay + (TicksPerDay - 1), tz)>>

\* get_day_range_utc(salon, target_date): the UTC instants of the local
\* 00:00:00.000000 and 23:59:59.999999 of target_date, <<>> being None (today
\* in the salon's zone).
get_day_range_utc(salon, target_date, now) ==
    LET tz == salon.timezone
        day == IF target_date = <<>>
               THEN DateOfInstant(UtcToLocal(now, tz))
               ELSE target_date[1]
        start_local == day * TicksPerDay
        end_local == day * TicksPerDay + (TicksPerDay - 1)
    IN  <<LocalToUtc(start_local, tz), LocalToUtc(end_local, tz)>>

\* ------------------------------------------------------------ service routes

\* GET /api/services
get_services(tok) ==
    /\ UNCHANGED server
    /\ UNCHANGED <<users, salons, staff, services, logs, closings>>
    /\ IF g_current_salon(tok) = {}
       THEN resp' = Reply("get_services", tok, 404, NoRows, NoData)
       ELSE \E salon \in g_current_salon(tok) :
              resp' = Reply("get_services", tok, 200,
                            [NoRows EXCEPT !.services =
                               {sv.id : sv \in {x \in services :
                                  x.salon_id = salon.id /\ x.is_active}}],
                            NoData)

\* POST /api/services.  An absent 'name' is "", an absent 'default_price' 0.
create_service(tok, body, store_ok) ==
    /\ UNCHANGED server
    /\ UNCHANGED <<users, salons, staff, logs, closings>>
    /\ IF g_current_salon(tok) = {}
       THEN /\ resp' = Reply("create_service", tok, 404, NoRows, NoData)
            /\ UNCHANGED services
       ELSE \E salon \in g_current_salon(tok) :
              IF body.name = "" \/ body.default_price = 0
              THEN /\ resp' = Reply("create_service", tok, 400, NoRows, NoData)
                   /\ UNCHANGED services
              ELSE IF ~store_ok
              THEN /\ resp' = Reply("create_service", tok, 500, NoRows, NoData)
                   /\ UNCHANGED services
              ELSE LET row == [id |-> NewId(services), salon_id |-> salon.id,
                               name |-> body.name, default_price |-> body.default_price,
                               is_active |-> TRUE]
                   IN  /\ HasRoom
                       /\ services' = services \cup {row}
                       /\ resp' = Reply("create_service", tok, 201,
                                        [NoRows EXCEPT !.services = {row.id}], NoData)

\* Service.query.filter_by(id=service_id, salon_id=salon_id)
find_service(service_id, salon_id) ==
    {sv \in services : sv.id = service_id /\ sv.salon_id = salon_id}

\* PUT /api/services/<service_id>.  A key the body lacks is "" (name).
update_service(tok, service_id, body, store_ok) ==
    /\ UNCHANGED server
    /\ UNCHANGED <<users, salons, staff, logs, closings>>
    /\ IF g_current_salon(tok) = {}
       THEN /\ resp' = Reply("update_service", tok, 404, NoRows, NoData)
            /\ UNCHANGED services
       ELSE \E salon \in g_current_salon(tok) :
              LET found == find_service(service_id, salon.id)
              IN  IF found = {}
                  THEN /\ resp' = Reply("update_service", tok, 404, NoRows, NoData)
                       /\ UNCHANGED services
                  ELSE IF ~store_ok
                  THEN /\ resp' = Reply("update_service", tok, 500, NoRows, NoData)
                       /\ UNCHANGED services
                  ELSE /\ services' =
                            {IF sv \in found /\ body.name # ""
                             THEN [sv EXCEPT !.name = body.name] ELSE sv : sv \in services}
                       /\ resp' = Reply("update_service", tok, 200,
                                        [NoRows EXCEPT !.services = {service_id}], NoData)

\* A deletion that removes the Service row instead of flagging it.
delete_service_removes(tok, service_id, store_ok) ==
    /\ UNCHANGED server
    /\ UNCHANGED <<users, salons, staff, logs, closings>>
    /\ \E salon \in g_current_salon(tok) :
          LET found == find_service(service_id, salon.id)
          IN  /\ found # {}
              /\ store_ok
              /\ services' = services \ found
              /\ resp' = Reply("delete_service", tok, 200,
                               [NoRows EXCEPT !.services = {service_id}], NoData)

\* DELETE /api/services/<service_id>
delete_service(tok, service_id, store_ok) ==
    /\ UNCHANGED server
    /\ UNCHANGED <<users, salons, staff, logs, closings>>
    /\ IF g_current_salon(tok) = {}
       THEN /\ resp' = Reply("delete_service", tok, 404, NoRows, NoData)
            /\ UNCHANGED services
       ELSE \E salon \in g_current_salon(tok) :
              LET found == find_service(service_id, salon.id)
              IN  IF found = {}
                  THEN /\ resp' = Reply("delete_service", tok, 404, NoRows, NoData)
                       /\ UNCHANGED services
                  ELSE IF ~store_ok
                  THEN /\ resp' = Reply("delete_service", tok, 500, NoRows, NoData)
                       /\ UNCHANGED services
                  ELSE /\ services' =
                            {IF sv \in found THEN [sv EXCEPT !.is_active = FALSE]
                             ELSE sv : sv \in services}
                       /\ resp' = Reply("delete_service", tok, 200,
                                        [NoRows EXCEPT !.services = {service_id}], NoData)

\* ------------------------------------------------------------ log routes

\* POST /api/logs.  An absent 'price' is 0, an absent 'payment_method' "",
\* an absent 'staff_id' or 'service_id' NULL, an absent 'served_at' <<>>
\* (the log is stamped datetime.utcnow()).
add_service_log(tok, body, now, store_ok) ==
    /\ UNCHANGED server
    /\ UNCHANGED <<users, salons, staff, services, closings>>
    /\ IF g_current_salon(tok) = {}
       THEN /\ resp' = Reply("add_service_log", tok, 404, NoRows, NoData)
            /\ UNCHANGED logs
       ELSE \E salon \in g_current_salon(tok) :
              IF body.price = 0 \/ body.payment_method = ""
                 \/ body.payment_method \notin {"cash", "upi"}
              THEN /\ resp' = Reply("add_service_log", tok, 400, NoRows, NoData)
                   /\ UNCHANGED logs
              ELSE IF ~store_ok
              THEN /\ resp' = Reply("add_service_log", tok, 500, NoRows, NoData)
                   /\ UNCHANGED logs
              ELSE LET row == [id |-> NewId(logs), salon_id |-> salon.id,
                               staff_id |-> body.staff_id,
                               service_id |-> body.service_id,
                               price |-> body.price,
                               payment_method |-> body.payment_method,
                               served_at |-> IF body.served_at = <<>> THEN now
                                             ELSE body.served_at[1]]
                   IN  /\ HasRoom
                       /\ logs' = logs \cup {row}
                       /\ resp' = Reply("add_service_log", tok, 201,
                                        [NoRows EXCEPT !.logs = {row.id}], NoData)

\* ServiceLog rows of the salon with start <= served_at <= end.
logs_in_range(salon_id, range) ==
    {l \in logs : l.salon_id = salon_id /\ l.served_at >= range[1]
                    /\ l.served_at <= range[2]}

\* if g.current_user.role == 'STAFF': query.filter(staff_id == staff_record.id)
\* (left as it is when the user has no Staff row).
staff_filter(tok, rows) ==
    LET mine == UNION {StaffRecords(u) : u \in {x \in g_current_user(tok) : x.role = "STAFF"}}
    IN  IF mine = {} THEN rows
        ELSE {l \in rows : \E st \in mine : l.staff_id = st.id}

\* The rows a log list is serialised from: the logs, and through log.service
\* and log.staff the Service and Staff rows they reference.
log_rows(rows) ==
    [NoRows EXCEPT
       !.logs = {l.id : l \in rows},
       !.services = {sv.id : sv \in {x \in services : \E l \in rows : l.service_id = x.id}},
       !.staff = {st.id : st \in {x \in staff : \E l \in rows : l.staff_id = x.id}}]

\* GET /api/logs/today.  date_arg: <<>> (absent) or the triple the string spells.
get_today_logs(tok, date_arg, now) ==
    /\ UNCHANGED server
    /\ UNCHANGED <<users, salons, staff, services, logs, closings>>
    /\ IF g_current_salon(tok) = {}
       THEN resp' = Reply("get_today_logs", tok, 404, NoRows, NoData)
       ELSE \E salon \in g_current_salon(tok) :
              IF date_arg # <<>> /\ ~ValidDate(date_arg)
              THEN resp' = Reply("get_today_logs", tok, 400, NoRows, NoData)
              ELSE LET target == IF date_arg = <<>> THEN <<>> ELSE <<ParseDate(date_arg)>>
                       range == get_day_range_utc(salon, target, now)
                       rows == staff_filter(tok, logs_in_range(salon.id, range))
                   IN  resp' = Reply("get_today_logs", tok, 200, log_rows(rows), NoData)

\* GET /api/logs.  start_date, end_date: <<>> (absent) or a date;
\* func.date(served_at) is the date part of the stored UTC value.
get_logs(tok, start_date, end_date) ==
    /\ UNCHANGED server
    /\ UNCHANGED <<users, salons, staff, services, logs, closings>>
    /\ IF g_current_salon(tok) = {}
       THEN resp' = Reply("get_logs", tok, 404, NoRows, NoData)
       ELSE \E salon \in g_current_salon(tok) :
              LET rows == {l \in logs :
                             /\ l.salon_id = salon.id
                             /\ start_date # <<>> =>
                                  DateOfInstant(l.served_at) >= ParseDate(start_date)
                             /\ end_date # <<>> =>
                                  DateOfInstant(l.served_at) <= ParseDate(end_date)}
              IN  resp' = Reply("get_logs", tok, 200, log_rows(rows), NoData)

\* Figures that compare the stored method strings as they are.
summary_of_exact(rows) ==
    [total_revenue |-> SumPrice(rows),
     cash_total |-> SumPrice({l \in rows : l.payment_method = "cash"}),
     upi_total |-> SumPrice({l \in rows : l.payment_method = "upi"}),
     transaction_count |-> Cardinality(rows)]

\* The figures of GET /api/summary over the selected logs.
summary_of(rows) ==
    [total_revenue |-> SumPrice(rows),
     cash_total |-> SumPrice({l \in rows : Lower(l.payment_method) = "cash"}),
     upi_total |-> SumPrice({l \in rows : Lower(l.payment_method) = "upi"}),
     transaction_count |-> Cardinality(rows)]

\* GET /api/summary
get_summary(tok, date_arg, now) ==
    /\ UNCHANGED server
    /\ UNCHANGED <<users, salons, staff, services, logs, closings>>
    /\ IF g_current_salon(tok) = {}
       THEN resp' = Reply("get_summary", tok, 404, NoRows, NoData)
       ELSE \E salon \in g_current_salon(tok) :
              IF date_arg # <<>> /\ ~ValidDate(date_arg)
              THEN resp' = Reply("get_summary", tok, 400, NoRows, NoData)
              ELSE LET target == IF date_arg = <<>> THEN <<>> ELSE <<ParseDate(date_arg)>>
                       range == get_day_range_utc(salon, target, now)
                       rows == staff_filter(tok, logs_in_range(salon.id, range))
                   IN  resp' = Reply("get_summary", tok, 200,
                                     [NoRows EXCEPT !.logs = {l.id : l \in rows}],
                                     summary_of(rows))

\* query(Parent.name, count, sum).join(ServiceLog, fk == Parent.id)
\*   .filter(salon, range).group_by(Parent.name): one group per name.
grouped(parents, rows, fk) ==
    LET joined(p) == {l \in rows : l[fk] = p.id}
        names == {p.name : p \in {x \in parents : joined(x) # {}}}
        of(n) == UNION {joined(p) : p \in {x \in parents : x.name = n}}
    IN  {[name |-> n, count |-> Cardinality(of(n)), total |-> SumPrice(of(n))] : n \in names}

\* GET /api/summary/breakdown
get_service_breakdown(tok, date_arg, now) ==
    /\ UNCHANGED server
    /\ UNCHANGED <<users, salons, staff, services, logs, closings>>
    /\ IF g_current_salon(tok) = {}
       THEN resp' = Reply("get_service_breakdown", tok, 404, NoRows, NoData)
       ELSE \E salon \in g_current_salon(tok) :
              IF date_arg # <<>> /\ ~ValidDate(date_arg)
              THEN resp' = Reply("get_service_breakdown", tok, 400, NoRows, NoData)
              ELSE LET target == IF date_arg = <<>> THEN <<>> ELSE <<ParseDate(date_arg)>>
                       range == get_day_range_utc(salon, target, now)
                       rows == logs_in_range(salon.id, range)
                       joined == {l \in rows : \E sv \in services : sv.id = l.service_id}
                   IN  resp' = Reply("get_service_breakdown", tok, 200,
                                     [log_rows(joined) EXCEPT !.staff = {}],
                                     grouped(services, rows, "service_id"))

\* GET /api/summary/staff-performance
get_staff_performance(tok, date_arg, now) ==
    /\ UNCHANGED server
    /\ UNCHANGED <<users, salons, staff, services, logs, closings>>
    /\ IF g_current_salon(tok) = {}
       THEN resp' = Reply("get_staff_performance", tok, 404, NoRows, NoData)
       ELSE \E salon \in g_current_salon(tok) :
              IF not_owner(tok)
              THEN resp' = Reply("get_staff_performance", tok, 403, NoRows, NoData)
              ELSE IF date_arg # <<>> /\ ~ValidDate(date_arg)
              THEN resp' = Reply("get_staff_performance", tok, 400, NoRows, NoData)
              ELSE LET target == IF date_arg = <<>> THEN <<>> ELSE <<ParseDate(date_arg)>>
                       range == get_day_range_utc(salon, target, now)
                       rows == logs_in_range(salon.id, range)
                       joined == {l \in rows : \E st \in staff : st.id = l.staff_id}
                   IN  resp' = Reply("get_staff_performance", tok, 200,
                                     [log_rows(joined) EXCEPT !.services = {}],
                                     grouped(staff, rows, "staff_id"))

\* ------------------------------------------------------------ analytics

RECURSIVE SumSeq(_)
SumSeq(q) == IF q = <<>> THEN 0 ELSE Head(q) + SumSeq(Tail(q))

\* local_time = log.served_at.replace(tzinfo=pytz.utc).astimezone(tz)
local_date(l, tz) == DateOfInstant(UtcToLocal(l.served_at, tz))

\* The day of the month of the stored UTC value.
bucket_day_utc(l, tz) == DayOf(DateOfInstant(l.served_at))

\* local_time.day
bucket_day(l, tz) == DayOf(local_date(l, tz))

\* local_time.month
bucket_month(l, tz) == MonthOf(local_date(l, tz))

\* The queried range of the monthly analytics: local first day 00:00:00 to
\* one second before the next month starts.
month_range(year, month, tz) ==
    LET start_local == DayNumber(year, month, 1) * TicksPerDay
        next_month_start ==
            IF month = 12 THEN DayNumber(year + 1, 1, 1) * TicksPerDay
            ELSE DayNumber(year, month + 1, 1) * TicksPerDay
        end_local == next_month_start - TicksPerSecond
    IN  <<LocalToUtc(start_local, tz), LocalToUtc(end_local, tz)>>

\* The queried range of the yearly analytics: local Jan 1 00:00:00 to Dec 31
\* 23:59:59.
year_range(year, tz) ==
    <<LocalToUtc(Instant(year, 1, 1, 0, 0, 0), tz),
      LocalToUtc(Instant(year, 12, 31, 23, 59, 59), tz)>>

\* chart_data and total of the monthly analytics.
monthly_chart(rows, year, month, tz) ==
    LET daily_data(d) == SumPrice({l \in rows : bucket_day(l, tz) = d})
        chart == [d \in 1..DaysInMonth(year, month) |-> daily_data(d)]
    IN  [data |-> chart, total |-> SumSeq(chart)]

\* chart_data and total of the yearly analytics.
yearly_chart(rows, tz) ==
    LET monthly_data(m) == SumPrice({l \in rows : bucket_month(l, tz) = m})
        chart == [i \in 1..12 |-> monthly_data(i)]
    IN  [data |-> chart, total |-> SumSeq(chart)]

\* GET /api/analytics/monthly.  month_arg, year_arg: <<>> (absent: the
\* salon's current month or year) or <<n>>.  datetime(year, month, 1) raises
\* for a month outside 1..12, outside any try.
get_monthly_analytics(tok, month_arg, year_arg, now) ==
    /\ UNCHANGED server
    /\ UNCHANGED <<users, salons, staff, services, logs, closings>>
    /\ IF g_current_salon(tok) = {}
       THEN resp' = Reply("get_monthly_analytics", tok, 404, NoRows, NoData)
       ELSE \E salon \in g_current_salon(tok) :
              LET tz == salon.timezone
                  today == DateOfInstant(UtcToLocal(now, tz))
                  month == IF month_arg = <<>> THEN MonthOf(today) ELSE month_arg[1]
                  year == IF year_arg = <<>> THEN YearOf(today) ELSE year_arg[1]
              IN  IF not_owner(tok)
                  THEN resp' = Reply("get_monthly_analytics", tok, 403, NoRows, NoData)
                  ELSE IF month \notin 1..12
                  THEN resp' = Reply("get_monthly_analytics", tok, 500, NoRows, NoData)
                  ELSE LET rows == logs_in_range(salon.id, month_range(year, month, tz))
                       IN  resp' = Reply("get_monthly_analytics", tok, 200,
                                         [NoRows EXCEPT !.logs = {l.id : l \in rows}],
                                         monthly_chart(rows, year, month, tz))

\* GET /api/analytics/yearly
get_yearly_analytics(tok, year_arg, now) ==
    /\ UNCHANGED server
    /\ UNCHANGED <<users, salons, staff, services, logs, closings>>
    /\ IF g_current_salon(tok) = {}
       THEN resp' = Reply("get_yearly_analytics", tok, 404, NoRows, NoData)
       ELSE \E salon \in g_current_salon(tok) :
              LET tz == salon.timezone
                  today == DateOfInstant(UtcToLocal(now, tz))
                  year == IF year_arg = <<>> THEN YearOf(today) ELSE year_arg[1]
              IN  IF not_owner(tok)
                  THEN resp' = Reply("get_yearly_analytics", tok, 403, NoRows, NoData)
                  ELSE LET rows == logs_in_range(salon.id, year_range(year, tz))
                       IN  resp' = Reply("get_yearly_analytics", tok, 200,
                                         [NoRows EXCEPT !.logs = {l.id : l \in rows}],
                                         yearly_chart(rows, tz))

\* ------------------------------------------------------------ daily closing

\* A lookup that never finds the stored closing.
existing_closing_blind(salon_id, closing_date) == {}

\* DailyClosing.query.filter_by(salon_id=salon_id, date=closing_date)
existing_closing(salon_id, closing_date) ==
    {c \in closings : c.salon_id = salon_id /\ c.date = closing_date}

\* Totals whose revenue is summed over all the salon's logs, of any date.
closing_totals_all_dates(salon_id, closing_date) ==
    LET rows == {l \in logs : l.salon_id = salon_id
                                /\ DateOfInstant(l.served_at) = closing_date}
    IN  [total_revenue |-> SumPrice({l \in logs : l.salon_id = salon_id}),
         cash_total |-> SumPrice({l \in rows : l.payment_method = "cash"}),
         upi_total |-> SumPrice({l \in rows : l.payment_method = "upi"})]

\* The totals a closing stores: the salon's logs whose stored UTC date is the
\* closing date, split by the exact strings 'cash' and 'upi'.
closing_totals(salon_id, closing_date) ==
    LET rows == {l \in logs : l.salon_id = salon_id
                                /\ DateOfInstant(l.served_at) = closing_date}
    IN  [total_revenue |-> SumPrice(rows),
         cash_total |-> SumPrice({l \in rows : l.payment_method = "cash"}),
         upi_total |-> SumPrice({l \in rows : l.payment_method = "upi"})]

\* POST /api/daily-closing.  date_arg: <<>> (absent: date.today() of the
\* server, whose clock is UTC) or the triple the string spells;
\* date.fromisoformat raises outside any try for a string that is no date.
\* The commit fails on _salon_date_uc when the pair is already stored.
create_daily_closing(tok, date_arg, now, store_ok) ==
    /\ UNCHANGED server
    /\ UNCHANGED <<users, salons, staff, services, logs>>
    /\ IF g_current_salon(tok) = {}
       THEN /\ resp' = Reply("create_daily_closing", tok, 404, NoRows, NoData)
            /\ UNCHANGED closings
       ELSE \E salon \in g_current_salon(tok) :
              IF date_arg # <<>> /\ ~ValidDate(date_arg)
              THEN /\ resp' = Reply("create_daily_closing", tok, 500, NoRows, NoData)
                   /\ UNCHANGED closings
              ELSE LET closing_date == IF date_arg = <<>> THEN DateOfInstant(now)
                                       ELSE ParseDate(date_arg)
                       t == closing_totals(salon.id, closing_date)
                       row == [id |-> NewId(closings), salon_id |-> salon.id,
                               date |-> closing_date, closed_at |-> now,
                               total_revenue |-> t.total_revenue,
                               cash_total |-> t.cash_total,
                               upi_total |-> t.upi_total]
                       unique == \A c \in closings :
                                    ~(c.salon_id = row.salon_id /\ c.date = row.date)
                   IN  IF existing_closing(salon.id, closing_date) # {}
                       THEN /\ resp' = Reply("create_daily_closing", tok, 400, NoRows,
                                             [date |-> closing_date])
                            /\ UNCHANGED closings
                       ELSE IF ~store_ok \/ ~unique
                       THEN /\ resp' = Reply("create_daily_closing", tok, 500, NoRows,
                                             [date |-> closing_date])
                            /\ UNCHANGED closings
                       ELSE /\ HasRoom
                            /\ closings' = closings \cup {row}
                            /\ resp' = Reply("create_daily_closing", tok, 201,
                                             [NoRows EXCEPT !.closings = {row.id}],
                                             [date |-> closing_date])

\* ------------------------------------------------------------ request inputs

\* Instants of the server clock and of client-stamped payments.  20:00 UTC
\* of 2024-02-29 is already 2024-03-01 in Asia/Kolkata; 02:00 UTC of
\* 2024-03-01 is still 2024-02-29 eight hours behind UTC.
Noon == Instant(2024, 2, 29, 12, 0, 0)
Evening == Instant(2024, 2, 29, 20, 0, 0)
Night == Instant(2024, 3, 1, 2, 0, 0)

\* 'date' parameters: absent, two dates, and a string that spells no date.
Feb29 == <<2024, 2, 29>>
Mar1 == <<2024, 3, 1>>
Feb30 == <<2024, 2, 30>>
DateArgs == {<<>>, Feb29, Mar1, Feb30}

\* Bodies of POST /api/logs.
LogBody(price, method, staff_id, service_id, served_at) ==
    [price |-> price, payment_method |-> method, staff_id |-> staff_id,
     service_id |-> service_id, served_at |-> served_at]

\* A walk-in paid in cash, and the bodies add_service_log turns down.
PlainLogBodies ==
    {LogBody(100, "cash", NULL, NULL, <<>>), LogBody(0, "cash", NULL, NULL, <<>>),
     LogBody(100, "card", NULL, NULL, <<>>), LogBody(100, "", NULL, NULL, <<>>)}

\* A cash payment stamped by the server and a UPI payment stamped by the
\* client with the next UTC day.
PaidLogBodies ==
    {LogBody(100, "cash", NULL, NULL, <<>>), LogBody(250, "upi", NULL, NULL, <<Night>>)}

\* A walk-in, and payments that name a Staff row and a Service row.  The
\* foreign keys are enforced: the body names rows that exist.
LinkedLogBodies ==
    {LogBody(100, "cash", NULL, NULL, <<>>)} \cup
    {LogBody(100, "cash", st.id, sv.id, <<>>) : st \in staff, sv \in services}

ServiceBodies ==
    {[name |-> "Cut", default_price |-> 300], [name |-> "", default_price |-> 300],
     [name |-> "Cut", default_price |-> 0]}

ServiceUpdates == {[name |-> ""], [name |-> "Color"]}

\* 'month' and 'year' parameters: absent or an integer.
YearArgs == {<<>>, <<2023>>, <<2024>>}

\* 'month' and 'year' of the monthly chart: the current month, the two
\* Februaries, the months after them and at the year's end, and a month
\* that does not exist.
Periods ==
    {<<<<>>, <<>>>>, <<<<2>>, <<2023>>>>, <<<<2>>, <<2024>>>>, <<<<3>>, <<>>>>,
     <<<<12>>, <<2023>>>>, <<<<13>>, <<2024>>>>}

\* ------------------------------------------------------------ specifications

\* The tenant-binding surface from the empty database: first contact and
\* staff management.
Next ==
    \/ \E tok \in Tokens, store_ok \in BOOLEAN : \E body \in SyncBodies(tok) :
          sync_profile(tok, body, store_ok)
    \/ \E tok \in Tokens : get_current_user(tok)
    \/ \E tok \in Tokens, body \in StaffBodies, store_ok \in BOOLEAN :
          create_staff(tok, body, store_ok)
    \/ \E tok \in Tokens, staff_id \in 1..MaxStaff, store_ok \in BOOLEAN :
          delete_staff(tok, staff_id, store_ok)

Spec == Init /\ [][Next]_vars

\* Two salons and a linked staff member, as the requests
\*   s1 sync-profile; s2 sync-profile; s1 POST /api/staff (e3);
\*   s2 POST /api/staff (e3); s3 sync-profile
\* leave the store (see TenancyReached).
Tenancy ==
    /\ users = {[id |-> 1, sub |-> "s1", email |-> "e1", role |-> "OWNER"],
                [id |-> 2, sub |-> "s2", email |-> "e2", role |-> "OWNER"],
                [id |-> 3, sub |-> "s3", email |-> "e3", role |-> "STAFF"]}
    /\ salons = {[id |-> 1, owner_id |-> 1, timezone |-> Kolkata],
                 [id |-> 2, owner_id |-> 2, timezone |-> West8]}
    /\ staff = {[id |-> 1, salon_id |-> 1, name |-> "Asha", email |-> "e3",
                 user_id |-> 3, is_active |-> TRUE],
                [id |-> 2, salon_id |-> 2, name |-> "Asha", email |-> "e3",
                 user_id |-> NULL, is_active |-> TRUE]}

TenancyReached == ~Tenancy

InitTenancy ==
    /\ Tenancy
    /\ services = {}
    /\ logs = {}
    /\ closings = {}
    /\ resp = [op |-> "none", sub |-> "", status |-> 0, rows |-> NoRows, data |-> NoData]
    /\ Idle

\* Payments and daily closings in the two salons.
NextClosing ==
    \/ \E tok \in Tokens, body \in PaidLogBodies, store_ok \in BOOLEAN :
          add_service_log(tok, body, Noon, store_ok)
    \/ \E tok \in Tokens, date_arg \in DateArgs, store_ok \in BOOLEAN :
          create_daily_closing(tok, date_arg, Evening, store_ok)

SpecClosing == InitTenancy /\ [][NextClosing]_vars

\* The callers of the report specifications: the owners of the two salons
\* and the staff member of the first; the reports are read in the first salon.
Members == {t \in Tokens : t.sub \in {"s1", "s2", "s3"}}
Readers == {t \in Tokens : t.sub \in {"s1", "s3"}}

\* Services, payments and the log and revenue reports in the two salons.
NextLogs ==
    \/ \E tok \in Readers : get_services(tok)
    \/ \E tok \in Members, body \in ServiceBodies, store_ok \in BOOLEAN :
          create_service(tok, body, store_ok)
    \/ \E tok \in Members, id \in 1..MaxRows, body \in ServiceUpdates,
          store_ok \in BOOLEAN :
          update_service(tok, id, body, store_ok)
    \/ \E tok \in Members, id \in 1..MaxRows, store_ok \in BOOLEAN :
          delete_service(tok, id, store_ok)
    \/ \E tok \in Members, store_ok \in BOOLEAN : \E body \in LinkedLogBodies :
          add_service_log(tok, body, Noon, store_ok)
    \/ \E tok \in Readers : get_today_logs(tok, Feb29, Noon)
    \/ \E tok \in Readers : get_logs(tok, <<>>, <<>>)
    \/ \E tok \in Readers : get_summary(tok, <<>>, Noon)
    \/ \E tok \in Readers : get_service_breakdown(tok, <<>>, Noon)
    \/ \E tok \in Readers : get_staff_performance(tok, <<>>, Noon)

SpecLogs == InitTenancy /\ [][NextLogs]_vars

\* The owner-only endpoints, called by the owners and by the staff member.
NextOwnerOnly ==
    \/ \E tok \in Tokens, body \in StaffBodies, store_ok \in BOOLEAN :
          create_staff(tok, body, store_ok)
    \/ \E tok \in Tokens, staff_id \in 1..(MaxStaff + 1), store_ok \in BOOLEAN :
          delete_staff(tok, staff_id, store_ok)
    \/ \E tok \in Tokens, date_arg \in DateArgs :
          get_staff_performance(tok, date_arg, Noon)
    \/ \E tok \in Tokens, period \in Periods :
          get_monthly_analytics(tok, period[1], period[2], Noon)
    \/ \E tok \in Tokens, year_arg \in YearArgs :
          get_yearly_analytics(tok, year_arg, Noon)

SpecOwnerOnly == InitTenancy /\ [][NextOwnerOnly]_vars

\* An owner deactivates staff while the salons' members go on working.
NextInactive ==
    \/ \E tok \in Members, staff_id \in 1..MaxStaff, store_ok \in BOOLEAN :
          delete_staff(tok, staff_id, store_ok)
    \/ \E tok \in Members : get_current_user(tok)
    \/ \E tok \in Members, body \in PlainLogBodies, store_ok \in BOOLEAN :
          add_service_log(tok, body, Noon, store_ok)
    \/ \E tok \in Members : get_logs(tok, <<>>, <<>>)
    \/ \E tok \in Members : get_staff(tok)

SpecInactive == InitTenancy /\ [][NextInactive]_vars

\* ServiceLog rows as the table admits them.
LedgerRow(id, salon_id, staff_id, price, method, served_at) ==
    [id |-> id, salon_id |-> salon_id, staff_id |-> staff_id, service_id |-> NULL,
     price |-> price, payment_method |-> method, served_at |-> served_at]

\* Payments of one day by the staff member and by others: methods in another
\* case or outside cash and UPI, a complimentary service, and payments of the
\* next local day and of the other salon.
Ledger ==
    {LedgerRow(1, 1, 1, 100, "cash", Noon),
     LedgerRow(2, 1, NULL, 250, "upi", Instant(2024, 2, 29, 6, 0, 0)),
     LedgerRow(3, 1, NULL, 40, "Cash", Noon),
     LedgerRow(4, 1, 1, 70, "card", Noon),
     LedgerRow(5, 1, NULL, 0, "card", Noon),
     LedgerRow(6, 1, NULL, 100, "cash", Evening),
     LedgerRow(7, 2, NULL, 250, "upi", Night)}

\* Payments on the two sides of a month and a year boundary, in UTC and in
\* the salons' zones.
YearLedger ==
    {LedgerRow(1, 1, 1, 100, "cash", Noon),
     LedgerRow(2, 1, NULL, 250, "upi", Instant(2024, 2, 29, 6, 0, 0)),
     LedgerRow(6, 1, NULL, 100, "cash", Evening),
     LedgerRow(7, 2, NULL, 250, "upi", Night),
     LedgerRow(8, 1, NULL, 100, "cash", Instant(2023, 12, 31, 19, 0, 0)),
     LedgerRow(9, 2, NULL, 100, "cash", Instant(2025, 1, 1, 7, 59, 59) + 1),
     LedgerRow(10, 1, NULL, 40, "cash", Instant(2023, 2, 28, 12, 0, 0))}

InitLedger(rows) ==
    /\ Tenancy
    /\ services = {}
    /\ logs \in SUBSET rows
    /\ closings = {}
    /\ resp = [op |-> "none", sub |-> "", status |-> 0, rows |-> NoRows, data |-> NoData]
    /\ Idle

\* The daily summary over a given ledger.
NextReports ==
    \E tok \in Members, date_arg \in DateArgs : get_summary(tok, date_arg, Noon)

SpecReports == InitLedger(Ledger) /\ [][NextReports]_vars

\* The monthly and yearly charts over a given ledger.
NextAnalytics ==
    \/ \E tok \in Members, period \in Periods :
          get_monthly_analytics(tok, period[1], period[2], Noon)
    \/ \E tok \in Members, year_arg \in YearArgs :
          get_yearly_analytics(tok, year_arg, Noon)

SpecAnalytics == InitLedger(YearLedger) /\ [][NextAnalytics]_vars

\* Zones of fixed offset from twelve hours behind to fourteen hours ahead of
\* UTC, and the dates around the end of February of a leap year.
ZoneOffsets ==
    TzOffsets \cup {0, 14 * 60 * 60 * TicksPerSecond, 0 - 12 * 60 * 60 * TicksPerSecond}

TargetDates == DayNumber(2024, 2, 1)..DayNumber(2024, 3, 10)

InitDayRange ==
    /\ users = {[id |-> 1, sub |-> "s1", email |-> "e1", role |-> "OWNER"]}
    /\ \E tz \in ZoneOffsets : salons = {[id |-> 1, owner_id |-> 1, timezone |-> tz]}
    /\ staff = {}
    /\ services = {}
    /\ logs = {}
    /\ closings = {}
    /\ resp = [op |-> "none", sub |-> "", status |-> 0, rows |-> NoRows, data |-> NoData]
    /\ Idle

\* A call of get_day_range_utc(salon, target_date); `resp` holds the
\* arguments and the pair it returns.
day_range(salon, target_date, now) ==
    /\ UNCHANGED server
    /\ UNCHANGED <<users, salons, staff, services, logs, closings>>
    /\ resp' = [op |-> "get_day_range_utc", sub |-> "", status |-> 0, rows |-> NoRows,
                data |-> [salon |-> salon, target_date |-> target_date,
                          range |-> get_day_range_utc(salon, target_date, now)]]

NextDayRange ==
    \E salon \in salons, target_date \in {<<>>} \cup {<<d>> : d \in TargetDates},
       now \in {Noon, Evening} :
       day_range(salon, target_date, now)

SpecDayRange == InitDayRange /\ [][NextDayRange]_vars

\* ------------------------------------------------------------ C1

\* The date a POST /api/daily-closing addresses.
ClosingDateOf(date_arg, now) ==
    IF date_arg = <<>> THEN DateOfInstant(now) ELSE ParseDate(date_arg)

\* A POST /api/daily-closing by a caller of a salon for a date the salon has
\* already closed: it answers 400 and the closings are as they were.
C1_SecondAttempt ==
    \A tok \in Tokens, date_arg \in DateArgs, store_ok \in BOOLEAN :
       \A salon \in g_current_salon(tok) :
          ( /\ resp'.op = "create_daily_closing"
            /\ resp'.sub = tok.sub
            /\ date_arg = <<>> \/ ValidDate(date_arg)
            /\ \E c \in closings : /\ c.salon_id = salon.id
                                   /\ c.date = ClosingDateOf(date_arg, Evening)
            /\ create_daily_closing(tok, date_arg, Evening, store_ok) )
          => /\ resp'.status = 400
             /\ closings' = closings

\* No two DailyClosing rows share a salon and a date.
C1_AtMostOne ==
    \A c, d \in closings : (c.salon_id = d.salon_id /\ c.date = d.date) => c = d

\* C1: for every salon S and date D at most one DailyClosing row exists for
\* (S, D) in every reachable state, and a POST /api/daily-closing for a pair
\* that already has a closing fails with 400, inserts no row and leaves the
\* stored snapshot (totals and closed_at) unchanged.
C1_ClosingIsUnique == [](C1_AtMostOne) /\ [][C1_SecondAttempt]_vars

\* A day was closed and a second attempt for it was refused.
C1_Refused ==
    /\ resp.op = "create_daily_closing"
    /\ resp.status = 400
    /\ \E c \in closings : c.date = resp.data.date /\ c.total_revenue > 0

\* ------------------------------------------------------------ C2

\* The requests whose answer `resp` is, made by the user u.
AnsweredTo(u, ops) == resp.sub = u.sub /\ resp.op \in ops /\ resp.status = 200

\* C2: for a STAFF-role caller the rows GET /api/logs returns and the rows
\* GET /api/summary aggregates are ServiceLogs whose staff_id is the caller's
\* own Staff id.
C2_StaffSeesOwnLogs ==
    \A u \in users :
       (u.role = "STAFF" /\ AnsweredTo(u, {"get_logs", "get_summary"}))
       => \A l \in logs :
             l.id \in resp.rows.logs => \E st \in StaffRecords(u) : l.staff_id = st.id

\* ------------------------------------------------------------ C3

OwnerOnly ==
    {"create_staff", "delete_staff", "get_staff_performance",
     "get_monthly_analytics", "get_yearly_analytics"}

\* A step that answers an owner-only request of a user who is bound to a
\* salon and is no owner: 403, nothing in the body, the Staff rows as before.
C3_Refuses ==
    (resp'.op \in OwnerOnly
       /\ \E u \in users : /\ u.sub = resp'.sub
                           /\ u.role # "OWNER"
                           /\ SalonsOfUser(u) # {})
    => /\ resp'.status = 403
       /\ resp'.rows = NoRows
       /\ resp'.data = NoData
       /\ staff' = staff

\* C3: a caller with a bound salon whose role is not OWNER gets 403 from
\* POST /api/staff, DELETE /api/staff/{id}, GET /api/summary/staff-performance,
\* GET /api/analytics/monthly and GET /api/analytics/yearly, with no report
\* data, and every Staff row stays as it was.
C3_OwnerOnly == [][C3_Refuses]_vars

\* A linked staff member asked to deactivate a Staff row of the salon and was
\* refused.
C3_StaffRefused ==
    /\ resp.op = "delete_staff"
    /\ resp.status = 403
    /\ \E u \in users : u.sub = resp.sub /\ u.role = "STAFF" /\ SalonsOfUser(u) # {}
    /\ \E st \in staff : st.is_active

\* ------------------------------------------------------------ C4

\* C4: a caller bound to a salon receives only Service, Staff, ServiceLog and
\* DailyClosing rows of that salon.
C4_TenantIsolation ==
    \A u \in users :
       (resp.sub = u.sub /\ resp.status = 200)
       => \A sa \in SalonsOfUser(u) :
             /\ \A l \in logs : l.id \in resp.rows.logs => l.salon_id = sa.id
             /\ \A sv \in services : sv.id \in resp.rows.services => sv.salon_id = sa.id
             /\ \A st \in staff : st.id \in resp.rows.staff => st.salon_id = sa.id
             /\ \A c \in closings : c.id \in resp.rows.closings => c.salon_id = sa.id

\* ------------------------------------------------------------ C5

\* The Staff rows an invitation is open on: active, of that e-mail address,
\* with no linked user.
OpenInvitations(email) ==
    {st \in staff : st.is_active /\ st.email = email /\ st.user_id = NULL}

\* A first contact that succeeds gives the role by the open invitations, and
\* links one of them or creates one salon.
C5_FirstContact ==
    \A tok \in Tokens :
       (g_current_user(tok) = {} /\ resp'.op = "sync_profile"
          /\ resp'.sub = tok.sub /\ resp'.status = 201)
       => LET new == users' \ users
          IN  /\ Cardinality(new) = 1
              /\ \A u \in new :
                    IF OpenInvitations(tok.email) # {}
                    THEN /\ u.role = "STAFF"
                         /\ salons' = salons
                         /\ \E st \in OpenInvitations(tok.email) :
                               staff' = (staff \ {st}) \cup {[st EXCEPT !.user_id = u.id]}
                    ELSE /\ u.role = "OWNER"
                         /\ staff' = staff
                         /\ Cardinality(salons' \ salons) = 1
                         /\ \A sa \in salons' \ salons : sa.owner_id = u.id

\* C5: on first contact the new User is STAFF if and only if an active Staff
\* row with the same email and no linked user exists; then exactly that row is
\* linked and no Salon is created; otherwise the User is OWNER of exactly one
\* new Salon.
C5_RoleByInvitation == [][C5_FirstContact]_vars

\* ------------------------------------------------------------ C6

\* Every User is an OWNER with exactly one Salon or a STAFF user whom exactly
\* one Staff row references.
C6_NoOrphan ==
    \A u \in users :
       \/ u.role = "OWNER" /\ Cardinality({sa \in salons : sa.owner_id = u.id}) = 1
       \/ u.role = "STAFF" /\ Cardinality({st \in staff : st.user_id = u.id}) = 1

\* A sync-profile that fails leaves the User, Salon and Staff rows alone.
C6_FailureLeavesNothing ==
    (resp'.op = "sync_profile" /\ resp'.status = 500)
    => users' = users /\ salons' = salons /\ staff' = staff

\* C6: the first-contact path is atomic: every User is an OWNER owning exactly
\* one Salon or a STAFF user referenced by exactly one Staff row, and a failed
\* first contact leaves no new User, no new Salon and no changed Staff link.
C6_Atomic == [](C6_NoOrphan) /\ [][C6_FailureLeavesNothing]_vars

\* A first contact failed while another user's profile was in the store.
C6_FailedContact ==
    /\ resp.op = "sync_profile"
    /\ resp.status = 500
    /\ users # {}
    /\ \A u \in users : u.sub # resp.sub

\* ------------------------------------------------------------ C7

\* The endpoints that require a bound salon, in the model.
SalonBound ==
    {"get_current_user", "add_service_log", "get_logs", "get_staff"}

\* C7: a request to an endpoint that requires a bound salon, made by the User
\* linked to a deactivated Staff row, fails with StaffInactive (403).
C7_StaffInactive ==
    \A u \in users :
       (/\ u.role = "STAFF"
        /\ resp.sub = u.sub
        /\ resp.op \in SalonBound
        /\ StaffRecords(u) # {}
        /\ \A st \in StaffRecords(u) : ~st.is_active)
       => resp.status = 403

\* ------------------------------------------------------------ C8

\* The salon's logs of a local day, narrowed to the caller's own for a STAFF
\* caller: the logs GET /api/summary aggregates.
C8_Selected(tok, salon, day) ==
    {l \in logs :
       /\ l.salon_id = salon.id
       /\ (l.served_at + salon.timezone) \div TicksPerDay = day
       /\ \A u \in g_current_user(tok) :
             u.role = "STAFF" => \E st \in StaffRecords(u) : l.staff_id = st.id}

C8_Cash(rows) == {l \in rows : l.payment_method \in {"cash", "Cash", "CASH"}}
C8_Upi(rows) == {l \in rows : l.payment_method \in {"upi", "Upi", "UPI"}}
C8_Other(rows) == rows \ (C8_Cash(rows) \cup C8_Upi(rows))

\* The day GET /api/summary reports on.
C8_Day(salon, date_arg, now) ==
    IF date_arg = <<>> THEN (now + salon.timezone) \div TicksPerDay
    ELSE ParseDate(date_arg)

C8_Figures ==
    \A tok \in Members, date_arg \in DateArgs :
       \A salon \in g_current_salon(tok) :
          (resp'.op = "get_summary" /\ resp'.status = 200
             /\ resp'.sub = tok.sub
             /\ get_summary(tok, date_arg, Noon))
          => LET rows == C8_Selected(tok, salon, C8_Day(salon, date_arg, Noon))
                 d == resp'.data
             IN  /\ d.total_revenue = SumPrice(rows)
                 /\ d.cash_total = SumPrice(C8_Cash(rows))
                 /\ d.upi_total = SumPrice(C8_Upi(rows))
                 /\ d.transaction_count = Cardinality(rows)
                 /\ d.total_revenue
                      = d.cash_total + d.upi_total + SumPrice(C8_Other(rows))
                 /\ C8_Other(rows) = {} => d.total_revenue = d.cash_total + d.upi_total
                 /\ SumPrice(C8_Other(rows)) # 0
                      => d.total_revenue # d.cash_total + d.upi_total

C8_ExactlyWhen ==
    \A tok \in Members, date_arg \in DateArgs :
       \A salon \in g_current_salon(tok) :
          (resp'.op = "get_summary" /\ resp'.status = 200
             /\ resp'.sub = tok.sub
             /\ get_summary(tok, date_arg, Noon))
          => LET rows == C8_Selected(tok, salon, C8_Day(salon, date_arg, Noon))
                 d == resp'.data
             IN  (d.total_revenue = d.cash_total + d.upi_total)
                   <=> C8_Other(rows) = {}

C9_Hour == 60 * 60 * TicksPerSecond

\* C9: for every zone offset and local date D, get_day_range_utc(salon, D)
\* returns start <= end, the UTC instant of the local midday of D lies in
\* [start, end], the UTC instant one second past the local midnight of D+1
\* lies outside, and the range of D ends before the range of D+1 starts.
C9_DayRange ==
    (resp.op = "get_day_range_utc" /\ resp.data.target_date # <<>>)
    => LET D == resp.data.target_date[1]
           off == resp.data.salon.timezone
           start == resp.data.range[1]
           end == resp.data.range[2]
           midday == D * TicksPerDay + 12 * C9_Hour - off
           past == (D + 1) * TicksPerDay + TicksPerSecond - off
           next == get_day_range_utc(resp.data.salon, <<D + 1>>, Noon)
       IN  /\ start <= end
           /\ start <= midday /\ midday <= end
           /\ ~(start <= past /\ past <= end)
           /\ end < next[1]

\* The range of 29 February 2024 was computed for a zone behind UTC.
C9_LeapDayBehindUtc ==
    /\ resp.op = "get_day_range_utc"
    /\ resp.data.target_date = <<DayNumber(2024, 2, 29)>>
    /\ resp.data.salon.timezone < 0

\* ------------------------------------------------------------ C10

\* The number of days of a month, by the calendar's rule.
C10_Days(year, month) ==
    IF month = 2
    THEN IF year % 4 = 0 /\ (year % 100 # 0 \/ year % 400 = 0) THEN 29 ELSE 28
    ELSE IF month \in {4, 6, 9, 11} THEN 30 ELSE 31

\* The salon-local calendar date of a log.
C10_Local(l, salon) == CivilTable[(l.served_at + salon.timezone) \div TicksPerDay]

\* The logs a chart was computed from.
C10_InRange == {l \in logs : l.id \in resp'.rows.logs}

C10_MonthlyChart ==
    \A tok \in Members, period \in Periods :
       \A salon \in g_current_salon(tok) :
          (resp'.op = "get_monthly_analytics" /\ resp'.status = 200
             /\ resp'.sub = tok.sub
             /\ get_monthly_analytics(tok, period[1], period[2], Noon))
          => LET month_arg == period[1]
                 year_arg == period[2]
                 today == CivilTable[(Noon + salon.timezone) \div TicksPerDay]
                 month == IF month_arg = <<>> THEN today[2] ELSE month_arg[1]
                 year == IF year_arg = <<>> THEN today[1] ELSE year_arg[1]
                 N == C10_Days(year, month)
                 chart == resp'.data.data
             IN  /\ Len(chart) = N
                 /\ \A l \in C10_InRange :
                       /\ l.salon_id = salon.id
                       /\ C10_Local(l, salon)[1] = year
                       /\ C10_Local(l, salon)[2] = month
                 /\ \A d \in 1..N :
                       chart[d] = SumPrice({l \in C10_InRange : C10_Local(l, salon)[3] = d})
                 /\ SumSeq(chart) = resp'.data.total
                 /\ resp'.data.total = SumPrice(C10_InRange)

C10_YearlyChart ==
    \A tok \in Members, year_arg \in YearArgs :
       \A salon \in g_current_salon(tok) :
          (resp'.op = "get_yearly_analytics" /\ resp'.status = 200
             /\ resp'.sub = tok.sub
             /\ get_yearly_analytics(tok, year_arg, Noon))
          => LET today == CivilTable[(Noon + salon.timezone) \div TicksPerDay]
                 year == IF year_arg = <<>> THEN today[1] ELSE year_arg[1]
                 chart == resp'.data.data
             IN  /\ Len(chart) = 12
                 /\ \A l \in C10_InRange :
                       l.salon_id = salon.id /\ C10_Local(l, salon)[1] = year
                 /\ \A m \in 1..12 :
                       chart[m] = SumPrice({l \in C10_InRange : C10_Local(l, salon)[2] = m})
                 /\ SumSeq(chart) = resp'.data.total
                 /\ resp'.data.total = SumPrice(C10_InRange)

C12_BadClosingDate ==
    \A tok \in Tokens, date_arg \in DateArgs, store_ok \in BOOLEAN :
       ( /\ resp'.op = "create_daily_closing"
         /\ resp'.sub = tok.sub
         /\ g_current_salon(tok) # {}
         /\ date_arg # <<>>
         /\ ~ValidDate(date_arg)
         /\ create_daily_closing(tok, date_arg, Evening, store_ok) )
       => /\ resp'.status = 400
          /\ closings' = closings
          /\ logs' = logs

\* C12: a malformed or out-of-range value of a date-accepting parameter makes
\* the request fail with 400 InvalidDate and no state change; it is never
\* replaced by a default date and never produces a 500.
C12_InvalidDate == [][C12_BadClosingDate]_vars

\* ------------------------------------------------------------ C19

\* C19: for a STAFF-role caller the counts and totals GET /api/summary/breakdown
\* returns are computed only from ServiceLogs whose staff_id is the caller's
\* own Staff id.
C19_BreakdownNarrowed ==
    \A u \in users :
       (u.role = "STAFF" /\ AnsweredTo(u, {"get_service_breakdown"}))
       => \A l \in logs :
             l.id \in resp.rows.logs => \E st \in StaffRecords(u) : l.staff_id = st.id

\* ------------------------------------------------------------ C20

\* The salon's logs of the salon-local day the reports of the run are read for.
C20_InRange(salon) ==
    {l \in logs :
       /\ l.salon_id = salon.id
       /\ (l.served_at + salon.timezone) \div TicksPerDay = C8_Day(salon, <<>>, Noon)}

RECURSIVE C20_Sum(_, _)
C20_Sum(groups, field) ==
    IF groups = {} THEN 0
    ELSE LET g == CHOOSE x \in groups : TRUE
         IN  g[field] + C20_Sum(groups \ {g}, field)

\* C20: the breakdown groups by Service name exactly the in-range logs that
\* have a linked service, and staff-performance groups by Staff name exactly
\* the in-range logs that have a staff_id; the group counts sum to the number
\* of such logs and the group totals to the sum of their prices, which never
\* exceeds the total_revenue GET /api/summary gives the caller for the range.
C20_GroupingSums ==
    \A tok \in Tokens :
       \A salon \in g_current_salon(tok) :
          ( /\ resp.sub = tok.sub
            /\ resp.status = 200
            /\ resp.op \in {"get_service_breakdown", "get_staff_performance"} )
          => LET fk == IF resp.op = "get_service_breakdown" THEN "service_id"
                       ELSE "staff_id"
                 parents == IF resp.op = "get_service_breakdown" THEN services
                            ELSE staff
                 linked == {l \in C20_InRange(salon) : l[fk] # NULL}
                 named(n) == {l \in linked :
                                \E p \in parents : p.id = l[fk] /\ p.name = n}
             IN  /\ resp.rows.logs = {l.id : l \in linked}
                 /\ \A g \in resp.data :
                       /\ named(g.name) # {}
                       /\ g.count = Cardinality(named(g.name))
                       /\ g.total = SumPrice(named(g.name))
                 /\ \A l \in linked : \E g \in resp.data : l \in named(g.name)
                 /\ C20_Sum(resp.data, "count") = Cardinality(linked)
                 /\ C20_Sum(resp.data, "total") = SumPrice(linked)
                 /\ SumPrice(linked)
                       <= SumPrice(C8_Selected(tok, salon, C8_Day(salon, <<>>, Noon)))

\* ------------------------------------------------------------ C15, C16

\* The owner of the first salon.
Owner1 == {t \in Tokens : t.sub = "s1"}

\* Every writing endpoint: the first salon's owner manages staff, services and
\* closings, the owner and the staff member record payments, and a newcomer
\* makes first contact.
NextWrites ==
    \/ \E tok \in Tokens \ Members, store_ok \in BOOLEAN : \E body \in SyncBodies(tok) :
          sync_profile(tok, body, store_ok)
    \/ \E tok \in Owner1, body \in StaffBodies, store_ok \in BOOLEAN :
          create_staff(tok, body, store_ok)
    \/ \E tok \in Owner1, staff_id \in 1..MaxStaff, store_ok \in BOOLEAN :
          delete_staff(tok, staff_id, store_ok)
    \/ \E tok \in Owner1, body \in ServiceBodies, store_ok \in BOOLEAN :
          create_service(tok, body, store_ok)
    \/ \E tok \in Owner1, id \in 1..MaxRows, body \in ServiceUpdates,
          store_ok \in BOOLEAN :
          update_service(tok, id, body, store_ok)
    \/ \E tok \in Owner1, id \in 1..MaxRows, store_ok \in BOOLEAN :
          delete_service(tok, id, store_ok)
    \/ \E tok \in Readers, store_ok \in BOOLEAN : \E body \in LinkedLogBodies :
          add_service_log(tok, body, Noon, store_ok)
    \/ \E tok \in Owner1, store_ok \in BOOLEAN :
          create_daily_closing(tok, <<>>, Evening, store_ok)

SpecWrites == InitTenancy /\ [][NextWrites]_vars

\* A step leaves every ServiceLog as it is, and adds one only as the 201 of
\* POST /api/logs.
C15_OnlyGrows ==
    /\ logs \subseteq logs'
    /\ logs' # logs => /\ resp'.op = "add_service_log"
                       /\ resp'.status = 201
                       /\ Cardinality(logs') = Cardinality(logs) + 1

\* C15: no API operation changes a field of an existing ServiceLog or removes
\* it; the set of ServiceLogs only grows, and only through a successful
\* POST /api/logs.
C15_Immutable == [][C15_OnlyGrows]_vars

\* The owner has deactivated a staff member whose payments are on record.
C15_Survives ==
    /\ resp.op = "delete_staff"
    /\ resp.status = 200
    /\ \E l \in logs : l.staff_id \in resp.rows.staff

\* ------------------------------------------------------------ C16

\* Services and staff are deactivated while payments that reference them are
\* on record and the reports are read.
NextDeactivate ==
    \/ \E tok \in Owner1, body \in ServiceBodies, store_ok \in BOOLEAN :
          create_service(tok, body, store_ok)
    \/ \E tok \in Readers, store_ok \in BOOLEAN : \E body \in LinkedLogBodies :
          add_service_log(tok, body, Noon, store_ok)
    \/ \E tok \in Readers, id \in 1..MaxRows, store_ok \in BOOLEAN :
          delete_service(tok, id, store_ok)
    \/ \E tok \in Readers, staff_id \in 1..MaxStaff, store_ok \in BOOLEAN :
          delete_staff(tok, staff_id, store_ok)
    \/ \E tok \in Readers : get_summary(tok, <<>>, Noon)
    \/ \E tok \in Readers : get_service_breakdown(tok, <<>>, Noon)
    \/ \E tok \in Readers : get_staff_performance(tok, <<>>, Noon)

SpecDeactivate == InitTenancy /\ [][NextDeactivate]_vars

\* The salon-local days the reports are compared on: the day of the payments
\* and the day after.
C16_Days == {(Noon + Kolkata) \div TicksPerDay, (Noon + Kolkata) \div TicksPerDay + 1}

\* The figures the three reports give the user u in the salon on a local day,
\* over the tables stf (Staff), svc (Service) and lgs (ServiceLog): the
\* summary's four figures, and a (name, count, total) triple per group.
C16_Reports(u, salon, day, stf, svc, lgs) ==
    LET inrange == {l \in lgs : /\ l.salon_id = salon.id
                                /\ (l.served_at + salon.timezone) \div TicksPerDay = day}
        own == {st.id : st \in {x \in stf : x.user_id = u.id}}
        mine == IF u.role = "STAFF" /\ own # {}
                THEN {l \in inrange : l.staff_id \in own} ELSE inrange
        names(parents, fk) ==
            {p.name : p \in {x \in parents : \E l \in inrange : l[fk] = x.id}}
        group(parents, fk, n) ==
            {l \in inrange : \E p \in parents : p.name = n /\ p.id = l[fk]}
        table(parents, fk) ==
            {<<n, Cardinality(group(parents, fk, n)), SumPrice(group(parents, fk, n))>> :
               n \in names(parents, fk)}
    IN  [summary |-> <<SumPrice(mine), SumPrice(C8_Cash(mine)), SumPrice(C8_Upi(mine)),
                       Cardinality(mine)>>,
         breakdown |-> table(svc, "service_id"),
         performance |-> IF u.role = "OWNER" THEN table(stf, "staff_id") ELSE {}]

\* The salon the user is bound to over the Staff table stf.
C16_Salons(u, stf) ==
    IF u.role = "STAFF"
    THEN {sa \in salons : \E st \in stf : st.user_id = u.id /\ st.salon_id = sa.id}
    ELSE {sa \in salons : sa.owner_id = u.id}

\* The rows of a table after a deactivation of the rows with the ids `hit`:
\* the same rows, the addressed ones with is_active = FALSE.
C16_Flagged(before, after, hit) ==
    /\ {r.id : r \in after} = {r.id : r \in before}
    /\ Cardinality(after) = Cardinality(before)
    /\ \A r \in before :
          IF r.id \in hit THEN [r EXCEPT !.is_active = FALSE] \in after
          ELSE r \in after

\* A step that answers a DELETE of a service or of a staff member with 200.
C16_Deactivation ==
    ( /\ resp'.op \in {"delete_service", "delete_staff"}
      /\ resp'.status = 200 )
    => /\ logs' = logs
       /\ users' = users /\ salons' = salons /\ closings' = closings
       /\ C16_Flagged(services, services', resp'.rows.services)
       /\ C16_Flagged(staff, staff', resp'.rows.staff)
       /\ \A u \in users, day \in C16_Days :
             /\ C16_Salons(u, staff') = C16_Salons(u, staff)
             /\ \A salon \in C16_Salons(u, staff) :
                   C16_Reports(u, salon, day, staff', services', logs')
                      = C16_Reports(u, salon, day, staff, services, logs)

TotalsLogBodies ==
    PaidLogBodies \cup
    {LogBody(70, "card", NULL, NULL, <<>>), LogBody(40, "Cash", NULL, NULL, <<>>),
     LogBody(0, "upi", NULL, NULL, <<>>)}

\* Payments of every spelling are offered and the days are closed.
NextTotals ==
    \/ \E tok \in Members, body \in TotalsLogBodies, store_ok \in BOOLEAN :
          add_service_log(tok, body, Noon, store_ok)
    \/ \E tok \in Members, date_arg \in DateArgs, store_ok \in BOOLEAN :
          create_daily_closing(tok, date_arg, Evening, store_ok)

SpecTotals == InitTenancy /\ [][NextTotals]_vars

\* C13: in every state reachable through the API, every DailyClosing row
\* satisfies total_revenue = cash_total + upi_total.
C13_TotalIsCashPlusUpi ==
    \A c \in closings : c.total_revenue = c.cash_total + c.upi_total

\* A closing of a day with a cash and a UPI payment on different UTC dates in
\* the salon: the closing counts the one of its date.
C13_ClosedWithPayments ==
    \E c \in closings :
       /\ c.total_revenue > 0
       /\ \E l \in logs : l.salon_id = c.salon_id /\ DateOfInstant(l.served_at) # c.date

\* ------------------------------------------------------------ auth.py

\* The settings the verification is run under: complete, without a client id,
\* without a region in development and in production, and without a user
\* pool id.
Configs ==
    {Configured,
     Settings("us-east-1", "pool", "", "production"),
     Settings("", "pool", "client", "development"),
     Settings("", "pool", "client", "production"),
     Settings("us-east-1", "", "client", "development")}

\* The key sets the identity provider publishes over time.
KeySets == {{K1}, {K1, K2}, {K2}}

\* get_token_auth_header returns None without 'Authorization: Bearer <token>'.
NoToken == <<>>

\* Bearer tokens: the key id of the header, the key the signature was made
\* with ("nX": a key of somebody else), and the claims exp, aud, sub, email.
BearerTokens ==
    [kid : {"k1", "k2", "k9"}, signed_with : {"n1", "n2", "nX"},
     exp : {Noon, Night}, aud : {"client", "other"}, sub : {"s1"}, email : {"e1"}]

\* The instants time.time() returns: the earlier expiry itself, and an
\* instant between the two expiries.
Clock == {Noon, Evening}

\* A fetch on every verification, cached keys or not.
keys_refetched(fetch_ok) == IF fetch_ok THEN jwks ELSE COGNITO_KEYS

\* if not _COGNITO_KEYS: _COGNITO_KEYS = json.loads(urlopen(keys_url))['keys']
\* The key list after the block; fetch_ok is whether urlopen succeeds.
keys_after_fetch(fetch_ok) ==
    IF COGNITO_KEYS = {} /\ fetch_ok THEN jwks ELSE COGNITO_KEYS

\* The audience compared before the expiry.
claims_error_audience_first(token, now) ==
    IF config.COGNITO_APP_CLIENT_ID # "" /\ token.aud # config.COGNITO_APP_CLIENT_ID
    THEN "Token was not issued for this audience"
    ELSE IF now > token.exp THEN "Token is expired"
    ELSE ""

\* The exception the checks of the claims raise ("": none): the expiry,
\* then the audience when a client id is configured.
claims_error(token, now) ==
    IF now > token.exp THEN "Token is expired"
    ELSE IF config.COGNITO_APP_CLIENT_ID # "" /\ token.aud # config.COGNITO_APP_CLIENT_ID
    THEN "Token was not issued for this audience"
    ELSE ""

\* verify_cognito_token(token): the key cache it leaves, the claims it returns
\* (<<>>: none) and the exception it raises ("": none).
verify_cognito_token(token, now, fetch_ok) ==
    LET keys == keys_after_fetch(fetch_ok)
        found == {k \in keys : k.kid = token.kid}
        Raise(cache, e) == [keys |-> cache, claims |-> <<>>, error |-> e]
    IN  IF config.COGNITO_REGION = "" \/ config.COGNITO_USER_POOL_ID = ""
        THEN IF config.ENV = "development" /\ config.COGNITO_REGION = ""
             THEN [keys |-> COGNITO_KEYS,
                   claims |-> <<[sub |-> "dev-user", email |-> "dev@example.com"]>>,
                   error |-> ""]
             ELSE Raise(COGNITO_KEYS, "Cognito configuration missing")
        ELSE IF keys = {} THEN Raise(keys, "Could not fetch JWKS")
        ELSE IF found = {} THEN Raise(keys, "Public key not found in JWKS")
        ELSE IF \A k \in found : k.n # token.signed_with
        THEN Raise(keys, "Signature verification failed")
        ELSE IF claims_error(token, now) # "" THEN Raise(keys, claims_error(token, now))
        ELSE [keys |-> keys,
              claims |-> <<[sub |-> token.sub, email |-> token.email]>>,
              error |-> ""]

\* The answer of a route wrapped in login_required: the request it answers,
\* the message of the 401, and whether the wrapped handler was called.
Answer(token, now, sub, status, error, ran) ==
    [op |-> "login_required", sub |-> sub, status |-> status, rows |-> NoRows,
     data |-> [token |-> token, now |-> now, error |-> error, ran |-> ran]]

\* login_required(f): a request to a wrapped route f, whose own answer is 200.
login_required(token, now, fetch_ok) ==
    /\ UNCHANGED <<users, salons, staff, services, logs, closings>>
    /\ UNCHANGED <<inflight, jwks, config>>
    /\ IF token = NoToken
       THEN /\ resp' = Answer(token, now, "", 401, "Authorization token required", FALSE)
            /\ UNCHANGED COGNITO_KEYS
       ELSE LET v == verify_cognito_token(token, now, fetch_ok)
            IN  /\ COGNITO_KEYS' = v.keys
                /\ IF v.error # ""
                   THEN resp' = Answer(token, now, "", 401, v.error, FALSE)
                   ELSE resp' = Answer(token, now, v.claims[1].sub, 200, "", TRUE)

\* The identity provider rotates its signing keys.
rotate_keys ==
    /\ UNCHANGED <<users, salons, staff, services, logs, closings, resp>>
    /\ UNCHANGED <<inflight, COGNITO_KEYS, config>>
    /\ jwks' \in KeySets \ {jwks}

\* A process started under any of the settings.
InitAuth ==
    /\ Tenancy
    /\ services = {}
    /\ logs = {}
    /\ closings = {}
    /\ resp = [op |-> "none", sub |-> "", status |-> 0, rows |-> NoRows, data |-> NoData]
    /\ inflight = {}
    /\ COGNITO_KEYS = {}
    /\ jwks = {K1}
    /\ config \in Configs

\* Requests with and without bearer tokens while the provider rotates keys.
NextAuth ==
    \/ \E token \in BearerTokens \cup {NoToken}, now \in Clock, fetch_ok \in BOOLEAN :
          login_required(token, now, fetch_ok)
    \/ rotate_keys

SpecAuth == InitAuth /\ [][NextAuth]_vars

\* ------------------------------------------------------------ C17

\* The first of the four checks the token of the last request fails against
\* the key list the request left in the cache ("": it passes all four): key
\* found by key id, signature, expiry, audience when a client id is configured.
C17_FirstFailure ==
    LET token == resp.data.token
        found == {k \in COGNITO_KEYS : k.kid = token.kid}
    IN  IF found = {} THEN "Public key not found in JWKS"
        ELSE IF token.signed_with \notin {k.n : k \in found}
        THEN "Signature verification failed"
        ELSE IF resp.data.now > token.exp THEN "Token is expired"
        ELSE IF config.COGNITO_APP_CLIENT_ID # "" /\ token.aud # config.COGNITO_APP_CLIENT_ID
        THEN "Token was not issued for this audience"
        ELSE ""

\* A request with a bearer token has been answered.
C17_Answered == resp.op = "login_required" /\ resp.data.token # NoToken

C18_CacheStep ==
    /\ COGNITO_KEYS # {} => COGNITO_KEYS' = COGNITO_KEYS
    /\ COGNITO_KEYS' # COGNITO_KEYS
          => /\ resp'.op = "login_required"
             /\ resp'.data.token # NoToken
             /\ COGNITO_KEYS' = jwks

\* A token whose key id is not in the filled cache is refused, whatever the
\* provider publishes by now.
C18_UnknownKidRefused ==
    ( /\ resp.op = "login_required"
      /\ resp.data.token # NoToken
      /\ COGNITO_KEYS # {}
      /\ resp.data.token.kid \notin {k.kid : k \in COGNITO_KEYS} )
    => /\ resp.status = 401
       /\ ~resp.data.ran

\* C18: the provider's key set is fetched on the first verification and, once
\* a fetch has succeeded, never fetched, replaced or invalidated again; after
\* a key rotation every token signed with a key id absent from the cached set
\* fails verification on every later request.
C18_NeverRefreshed == [](C18_UnknownKidRefused) /\ [][C18_CacheStep]_vars

\* After a rotation a token the provider's new key signed, unexpired and
\* issued for the client, is refused because the cache still holds the old
\* key set.
C18_RotatedKeyRefused ==
    /\ resp.op = "login_required"
    /\ resp.data.token # NoToken
    /\ COGNITO_KEYS = {K1}
    /\ K2 \in jwks
    /\ resp.data.token.kid = "k2"
    /\ resp.data.token.signed_with = "n2"
    /\ resp.data.token.exp >= resp.data.now
    /\ resp.data.token.aud = config.COGNITO_APP_CLIENT_ID
    /\ resp.status = 401

\* ------------------------------------------------------------ concurrent requests

\* The requests that can be in flight together.
RequestIds == {"r1", "r2"}

\* The request ids in use.
Busy == {r.rid : r \in inflight}

\* POST /api/daily-closing up to its existence query: the request of a
\* salon-bound caller with a well-formed date has found no closing of the
\* (salon, date) pair and goes on to the insert.
closing_check(rid, tok, date_arg, now) ==
    /\ UNCHANGED <<users, salons, staff, services, logs, closings, resp>>
    /\ UNCHANGED <<COGNITO_KEYS, jwks, config>>
    /\ rid \notin Busy
    /\ ~(date_arg # <<>> /\ ~ValidDate(date_arg))
    /\ \E salon \in g_current_salon(tok) :
          LET closing_date == IF date_arg = <<>> THEN DateOfInstant(now)
                              ELSE ParseDate(date_arg)
          IN  /\ existing_closing(salon.id, closing_date) = {}
              /\ inflight' = inflight \cup
                    {[rid |-> rid, op |-> "create_daily_closing", tok |-> tok,
                      salon_id |-> salon.id, date |-> closing_date]}

\* POST /api/daily-closing from the logs query to the answer: the totals, the
\* insert and the commit, which _salon_date_uc fails when the pair has been
\* committed meanwhile; the except branch rolls back and answers 500.
closing_insert(rid, now, store_ok) ==
    /\ UNCHANGED <<users, salons, staff, services, logs>>
    /\ UNCHANGED <<COGNITO_KEYS, jwks, config>>
    /\ \E r \in inflight :
          /\ r.rid = rid
          /\ r.op = "create_daily_closing"
          /\ inflight' = inflight \ {r}
          /\ LET t == closing_totals(r.salon_id, r.date)
                 row == [id |-> NewId(closings), salon_id |-> r.salon_id,
                         date |-> r.date, closed_at |-> now,
                         total_revenue |-> t.total_revenue,
                         cash_total |-> t.cash_total,
                         upi_total |-> t.upi_total]
                 unique == \A c \in closings :
                              ~(c.salon_id = row.salon_id /\ c.date = row.date)
             IN  IF ~store_ok \/ ~unique
                 THEN /\ resp' = Reply("create_daily_closing", r.tok, 500, NoRows,
                                       [date |-> r.date])
                      /\ UNCHANGED closings
                 ELSE /\ HasRoom
                      /\ closings' = closings \cup {row}
                      /\ resp' = Reply("create_daily_closing", r.tok, 201,
                                       [NoRows EXCEPT !.closings = {row.id}],
                                       [date |-> r.date])

\* Closings of the first salon requested concurrently by its owner and its
\* staff member: each request checks and inserts in two steps, and other
\* requests run between them.
NextClosingRace ==
    \/ \E rid \in RequestIds, tok \in Readers, date_arg \in DateArgs :
          closing_check(rid, tok, date_arg, Evening)
    \/ \E rid \in RequestIds, store_ok \in BOOLEAN :
          closing_insert(rid, Evening, store_ok)
    \/ \E tok \in Owner1, body \in PaidLogBodies, store_ok \in BOOLEAN :
          add_service_log(tok, body, Noon, store_ok)

SpecClosingRace == InitTenancy /\ [][NextClosingRace]_vars

\* ------------------------------------------------------------ C11

\* At most one DailyClosing row per (salon, date) is committed.
C11_OneRow ==
    \A c1 \in closings, c2 \in closings :
       (c1.salon_id = c2.salon_id /\ c1.date = c2.date) => c1 = c2

\* The request that reaches its insert after the pair has been committed is
\* answered 400 and leaves the table as it is.
C11_Loser ==
    \A r \in inflight :
       ( /\ r \notin inflight'
         /\ \E c \in closings : c.salon_id = r.salon_id /\ c.date = r.date )
       => /\ resp'.status = 400
          /\ closings' = closings

\* C11: of two concurrent POST /api/daily-closing requests for the same
\* (salon, date), under every interleaving of check and insert, exactly one
\* row is committed and the loser is answered 400 (AlreadyClosed /
\* ConflictError) with its transaction rolled back.
C11_RaceResolved == [](C11_OneRow) /\ [][C11_Loser]_vars

\* ------------------------------------------------------------ first-contact race

\* POST /api/auth/sync-profile up to its user lookup: the request has found
\* no User of the token's subject and goes on to create one.
sync_lookup(rid, tok) ==
    /\ UNCHANGED <<users, salons, staff, services, logs, closings, resp>>
    /\ UNCHANGED <<COGNITO_KEYS, jwks, config>>
    /\ rid \notin Busy
    /\ g_current_user(tok) = {}
    /\ inflight' = inflight \cup
          {[rid |-> rid, op |-> "sync_profile", tok |-> tok,
            salon_id |-> NULL, date |-> NULL]}

\* POST /api/auth/sync-profile from the invitation lookup to the answer: the
\* User is added and flushed, the Staff row linked or the Salon added, and
\* the session committed; the except branch rolls back and answers 500.
sync_create(rid, body, store_ok) ==
    /\ UNCHANGED <<services, logs, closings>>
    /\ UNCHANGED <<COGNITO_KEYS, jwks, config>>
    /\ \E r \in inflight :
          /\ r.rid = rid
          /\ r.op = "sync_profile"
          /\ inflight' = inflight \ {r}
          /\ \E invited \in
                   IF \E st \in staff : st.email = r.tok.email
                   THEN {{st} : st \in {x \in staff : x.email = r.tok.email}}
                   ELSE {{}} :
                LET c == first_contact(r.tok, invited, body, store_ok)
                IN  /\ users' = c.db.users
                    /\ salons' = c.db.salons
                    /\ staff' = c.db.staff
                    /\ resp' = Reply("sync_profile", r.tok, c.status, NoRows, c.data)

\* The owner-to-be of a salon and the staff member it invites.
Newcomers == {t \in Tokens : t.sub \in {"s1", "s3"}}

\* First contacts made concurrently from the empty database: each request
\* looks up and creates in two steps; an owner invites staff, and requests
\* that run alone are served in one step.
NextSyncRace ==
    \/ \E rid \in RequestIds, tok \in Newcomers : sync_lookup(rid, tok)
    \/ \E rid \in RequestIds, store_ok \in BOOLEAN :
          \E r \in inflight : \E body \in SyncBodies(r.tok) :
             sync_create(rid, body, store_ok)
    \/ \E tok \in Newcomers, store_ok \in BOOLEAN : \E body \in SyncBodies(tok) :
          sync_profile(tok, body, store_ok)
    \/ \E tok \in Newcomers, body \in StaffBodies, store_ok \in BOOLEAN :
          create_staff(tok, body, store_ok)

SpecSyncRace == Init /\ [][NextSyncRace]_vars

\* ------------------------------------------------------------ C14

\* At most one User per subject, at most one Salon per owner and at most one
\* Staff link per user.
C14_OneUser ==
    /\ \A u1 \in users, u2 \in users : u1.sub = u2.sub => u1 = u2
    /\ \A u \in users :
          /\ Cardinality({sa \in salons : sa.owner_id = u.id}) <= 1
          /\ Cardinality({st \in staff : st.user_id = u.id}) <= 1

\* The first-contact request that reaches its writes after the subject's User
\* has been committed gets the ConflictError answer and writes nothing.
C14_Loser ==
    \A r \in inflight :
       ( /\ r \notin inflight'
         /\ \E u \in users : u.sub = r.tok.sub )
       => /\ resp'.status = 400
          /\ users' = users /\ salons' = salons /\ staff' = staff

\* A sync-profile that starts after the subject's User has been committed is
\* answered 200 and changes no row.
C14_Later ==
    ( /\ resp'.op = "sync_profile"
      /\ resp' # resp
      /\ inflight' = inflight
      /\ \E u \in users : u.sub = resp'.sub )
    => /\ resp'.status = 200
       /\ users' = users /\ salons' = salons /\ staff' = staff

\* C14: of two concurrent first-contact sync-profile requests for the same
\* subject, under every interleaving, at most one User (and at most one Salon
\* or Staff link) is committed, the loser gets a ConflictError response with
\* nothing of its own written, and any later sync-profile of the subject
\* returns the existing User with 200 without creating or changing a row.
C14_FirstContactRace == [](C14_OneUser) /\ [][C14_Loser /\ C14_Later]_vars

\* ------------------------------------------------------------ C21

\* C21: every ServiceLog with a service_id refers to a Service of the log's
\* own salon, and every ServiceLog with a staff_id to a Staff row of the log's
\* own salon: POST /api/logs never stores a reference into another salon.
C21_ReferencesInSalon ==
    \A l \in logs :
       /\ l.service_id # NULL
             => \E sv \in services : sv.id = l.service_id /\ sv.salon_id = l.salon_id
       /\ l.staff_id # NULL
             => \E st \in staff : st.id = l.staff_id /\ st.salon_id = l.salon_id

\* ------------------------------------------------------------ C22

\* A step in which POST /api/logs stores a log for a STAFF-role caller: the
\* new row carries one of the caller's Staff ids.
C22_OwnStaffId ==
    \A u \in users :
       ( /\ u.role = "STAFF"
         /\ resp'.op = "add_service_log"
         /\ resp'.sub = u.sub
         /\ resp'.status = 201
         /\ logs' # logs )
       => \A l \in logs' \ logs : \E st \in StaffRecords(u) : l.staff_id = st.id

\* C22: every ServiceLog a STAFF-role caller creates through POST /api/logs
\* has the caller's own Staff id as its staff_id, never another staff
\* member's and never none.
C22_StaffLogsOwnWork == [][C22_OwnStaffId]_vars

\* ------------------------------------------------------------ staff invitation race

\* POST /api/staff up to its existence query: the owner's request with a
\* name and an email has found no active Staff row of the email in the salon
\* and goes on to the insert.
staff_check(rid, tok, body) ==
    /\ UNCHANGED <<users, salons, staff, services, logs, closings, resp>>
    /\ UNCHANGED <<COGNITO_KEYS, jwks, config>>
    /\ rid \notin Busy
    /\ ~not_owner(tok)
    /\ body.name # ""
    /\ body.email # ""
    /\ \E salon \in g_current_salon(tok) :
          /\ existing_staff(salon.id, body.email) = {}
          /\ inflight' = inflight \cup
                {[rid |-> rid, op |-> "create_staff", tok |-> tok,
                  salon_id |-> salon.id, body |-> body]}

\* POST /api/staff from the insert to the answer.  The staff table has no
\* uniqueness constraint on (salon_id, email): the commit fails only when the
\* store does.
staff_insert(rid, store_ok) ==
    /\ UNCHANGED <<users, salons, services, logs, closings>>
    /\ UNCHANGED <<COGNITO_KEYS, jwks, config>>
    /\ \E r \in inflight :
          /\ r.rid = rid
          /\ r.op = "create_staff"
          /\ inflight' = inflight \ {r}
          /\ IF ~store_ok
             THEN /\ resp' = Reply("create_staff", r.tok, 500, NoRows, NoData)
                  /\ UNCHANGED staff
             ELSE LET row == [id |-> NewId(staff), salon_id |-> r.salon_id,
                              name |-> r.body.name, email |-> r.body.email,
                              user_id |-> NULL, is_active |-> TRUE]
                  IN  /\ Cardinality(staff) < MaxStaff
                      /\ staff' = staff \cup {row}
                      /\ resp' = Reply("create_staff", r.tok, 201,
                                       [NoRows EXCEPT !.staff = {row.id}], NoData)

\* Bodies of POST /api/staff that invite two different addresses.
InviteBodies == StaffBodies \cup {[name |-> "Ravi", email |-> "e1"]}

\* A salon whose owner has signed up and has invited nobody yet.
InitSalon ==
    /\ users = {[id |-> 1, sub |-> "s1", email |-> "e1", role |-> "OWNER"]}
    /\ salons = {[id |-> 1, owner_id |-> 1, timezone |-> Kolkata]}
    /\ staff = {}
    /\ services = {}
    /\ logs = {}
    /\ closings = {}
    /\ resp = [op |-> "none", sub |-> "", status |-> 0, rows |-> NoRows, data |-> NoData]
    /\ Idle

\* The owner invites and deactivates staff from several sessions at once:
\* an invitation checks and inserts in two steps, and other requests run
\* between them.
NextStaffRace ==
    \/ \E rid \in RequestIds, tok \in Owner1, body \in InviteBodies :
          staff_check(rid, tok, body)
    \/ \E rid \in RequestIds, store_ok \in BOOLEAN : staff_insert(rid, store_ok)
    \/ \E tok \in Owner1, body \in InviteBodies, store_ok \in BOOLEAN :
          create_staff(tok, body, store_ok)
    \/ \E tok \in Owner1, staff_id \in 1..MaxStaff, store_ok \in BOOLEAN :
          delete_staff(tok, staff_id, store_ok)

SpecStaffRace == InitSalon /\ [][NextStaffRace]_vars

\* ------------------------------------------------------------ C23

\* At most one active Staff row per salon and email.
C23_OneActive ==
    \A s1 \in staff, s2 \in staff :
       ( /\ s1.is_active /\ s2.is_active
         /\ s1.salon_id = s2.salon_id
         /\ s1.email = s2.email )
       => s1 = s2

\* A step creates no Staff row whose email an active row of the salon has,
\* and an invitation of such an email that is answered in one step is a 400.
C23_NoDuplicateInvite ==
    /\ \A st \in staff' :
          st.id \notin {x.id : x \in staff} => existing_staff(st.salon_id, st.email) = {}
    /\ \A tok \in Owner1, body \in InviteBodies, store_ok \in BOOLEAN :
          ( /\ resp'.op = "create_staff"
            /\ inflight' = inflight
            /\ \E salon \in g_current_salon(tok) :
                  existing_staff(salon.id, body.email) # {}
            /\ create_staff(tok, body, store_ok) )
          => resp'.status = 400 /\ staff' = staff

\* C23: for every salon and email at most one active Staff row exists, after
\* any sequence and any concurrent interleaving of POST /api/staff and
\* DELETE /api/staff/{id}; a POST /api/staff whose email matches an active
\* Staff row of the salon returns 400 and creates nothing.
C23_OneActivePerEmail == [](C23_OneActive) /\ [][C23_NoDuplicateInvite]_vars

\* ------------------------------------------------------------ C24

\* The first instant of 1 March 2024 on a salon's wall clock, in UTC.
MarchBegins(tz) == LocalToUtc(DayNumber(2024, 3, 1) * TicksPerDay, tz)

\* Payments around the end of February 2024 on the salons' wall clocks: half
\* a second and a whole second before midnight of the 29th, at midnight, and
\* at noon UTC.
MonthEndLedger ==
    {LedgerRow(1, 1, NULL, 100, "cash", MarchBegins(Kolkata) - 1),
     LedgerRow(2, 1, NULL, 250, "upi", MarchBegins(Kolkata) - TicksPerSecond),
     LedgerRow(3, 1, NULL, 40, "cash", MarchBegins(Kolkata)),
     LedgerRow(4, 1, 1, 70, "upi", Noon),
     LedgerRow(5, 2, NULL, 100, "cash", MarchBegins(West8) - 1)}

\* The owners of the two salons.
Owners == {t \in Tokens : t.sub \in {"s1", "s2"}}

\* The months the charts are read for: the current one, February and March.
MonthEndPeriods == {<<<<>>, <<>>>>, <<<<2>>, <<2024>>>>, <<<<3>>, <<2024>>>>}

\* The owners read the monthly chart and the daily summaries of the ledger.
NextMonthEnd ==
    \/ \E tok \in Owners, period \in MonthEndPeriods :
          get_monthly_analytics(tok, period[1], period[2], Noon)
    \/ \E tok \in Owners, date_arg \in {<<>>, Feb29, Mar1} :
          get_summary(tok, date_arg, Noon)

SpecMonthEnd == InitLedger(MonthEndLedger) /\ [][NextMonthEnd]_vars

\* A step that answers an owner's monthly chart: every bucket is the
\* total_revenue GET /api/summary gives for that date, and the total is the
\* sum of the summaries of the month's dates.
C24_ChartIsSummaries ==
    \A tok \in Owners, period \in MonthEndPeriods :
       \A salon \in g_current_salon(tok) :
          ( /\ resp'.op = "get_monthly_analytics"
            /\ resp'.status = 200
            /\ resp'.sub = tok.sub
            /\ get_monthly_analytics(tok, period[1], period[2], Noon) )
          => LET today == CivilTable[(Noon + salon.timezone) \div TicksPerDay]
                 month == IF period[1] = <<>> THEN today[2] ELSE period[1][1]
                 year == IF period[2] = <<>> THEN today[1] ELSE period[2][1]
                 chart == resp'.data.data
                 summary(d) ==
                    summary_of(staff_filter(tok,
                       logs_in_range(salon.id,
                          get_day_range_utc(salon, <<DayNumber(year, month, d)>>, Noon))))
                 days == [d \in 1..Len(chart) |-> summary(d).total_revenue]
             IN  /\ \A d \in 1..Len(chart) : chart[d] = days[d]
                 /\ resp'.data.total = SumSeq(days)

\* C24: for an OWNER caller the total of GET /api/analytics/monthly for
\* (year, month) is the sum of the GET /api/summary total_revenue over the
\* dates of the month and each bucket d is the summary total of day d; a log
\* served within the last second of the month's final local day is counted by
\* both or by neither.
C24_MonthlyEqualsDaily == [][C24_ChartIsSummaries]_vars

====
